---- MODULE Spec2Model ----
(***************************************************************************)
(* A model of the koi / helios front-end:                                  *)
(*   - the indentation rewriter  helios-parser/src/lib.rs  process_indents *)
(*     and the message plumbing of  parse,                                 *)
(*   - the lexer                 koi-syntax/src/lexer.rs,                  *)
(*   - the parser                koi-syntax/src/parser.rs,                 *)
(*   - the syntax kind catalog   helios-syntax/src/lib.rs.                 *)
(* Each component has its own specification (SpecIndent, SpecLexer,        *)
(* SpecParser, SpecCatalog); the variables of the others stay idle.        *)
(***************************************************************************)
EXTENDS Integers, Sequences, FiniteSets, TLC

\* ------------------------------------------------------------------ bounds
MaxTokens == 5
MaxWidth == 3
MaxSourceLen == 4
MaxModes == 2
MaxParseTokens == 4
MaxChain == 2
MaxLexerMessages == 1

VARIABLES
    \* process_indents / parse (helios-parser/src/lib.rs)
    source,            \* the source text, a sequence of characters
    tokens,            \* the input token vector
    i,                 \* the loop index (0-based, as in the code)
    indent_stack,      \* the indentation stack
    processed_tokens,  \* the output vector
    pc,                \* "idle" | "loop" | "done" | "parsed" | "panic"
    last,              \* history: what the last step did and the state it started from
    dedent_for,        \* history: the popped level behind every Dedent of processed_tokens
    messages,          \* the message list of parse
    \* Lexer (koi-syntax/src/lexer.rs)
    lx_source,         \* the characters of the source handed to Lexer::new
    cursor_pos,        \* cursor: the number of characters advanced over
    consumed_chars,    \* the characters consumed since the last token
    mode_stack,        \* the stack of lexer modes
    lx_tokens,         \* history: the items next() has returned so far
    lx_pc,             \* "idle" | "run" | "none" | "panic"
    lx_last,           \* history: the last call of next() and where it started
    \* Parser (koi-syntax/src/parser.rs)
    p_tokens,          \* the tokens the parser's lexer yields before Eof
    p_trailing,        \* whether trivia follows the last token in the source
    lexer_pos,         \* the number of tokens pulled from the lexer (Eof included)
    lexer_modes,       \* the mode stack of the parser's lexer
    peeked_token,      \* Parser.peeked_token (kind "None" for None)
    nodes,             \* the Ast under construction in Parser::parse
    p_pc,              \* "idle" | "run" | "done" | "panic"
    \* The syntax kind catalog (helios-syntax/src/lib.rs)
    cat_arg,           \* the argument: a SyntaxKind or a spelling
    cat_op,            \* the function applied to it ("none" before the call)
    cat_out            \* what the function returned ("panic" if it panicked)

indentVars == <<source, tokens, i, indent_stack, processed_tokens, pc, last,
                dedent_for, messages>>

lexerVars == <<lx_source, cursor_pos, consumed_chars, mode_stack, lx_tokens,
               lx_pc, lx_last>>

parserVars == <<p_tokens, p_trailing, lexer_pos, lexer_modes, peeked_token,
                nodes, p_pc>>

catalogVars == <<cat_arg, cat_op, cat_out>>

vars == <<indentVars, lexerVars, parserVars, catalogVars>>

\* ------------------------------------------------------------ small helpers
Last(s) == s[Len(s)]

Front(s) == SubSeq(s, 1, Len(s) - 1)

\* The element of a one-element set.
The(S) == CHOOSE x \in S : TRUE

RECURSIVE Repeat(_, _)
Repeat(c, n) == IF n = 0 THEN <<>> ELSE <<c>> \o Repeat(c, n - 1)

RECURSIVE ConcatTexts(_)
ConcatTexts(ts) ==
    IF ts = <<>> THEN <<>> ELSE ts[1].text \o ConcatTexts(SubSeq(ts, 2, Len(ts)))

\* source[start..end]: byte offsets are 0-based and half-open
Slice(s, start, end) == SubSeq(s, start + 1, end)

\* Token { kind, text, range }
Token(kind, text, start, end) ==
    [kind |-> kind, text |-> text, start |-> start, end |-> end]

\* ------------------------------------------------------- the token vectors
\* What the lexer hands to process_indents: a Newline token is the line feed
\* followed by the spaces that start the new line; every other token is
\* represented by a one-character identifier.
Shapes == { [kind |-> "Newline", width |-> w] : w \in 0..MaxWidth }
            \cup { [kind |-> "Identifier", width |-> 0] }

ShapeText(sh) ==
    IF sh.kind = "Newline" THEN <<"\n">> \o Repeat(" ", sh.width) ELSE <<"a">>

RECURSIVE TokensFrom(_, _)
TokensFrom(shapes, start) ==
    IF shapes = <<>> THEN <<>>
    ELSE LET text == ShapeText(shapes[1])
         IN <<Token(shapes[1].kind, text, start, start + Len(text))>>
              \o TokensFrom(SubSeq(shapes, 2, Len(shapes)), start + Len(text))

ShapeVectors == UNION { [1..n -> Shapes] : n \in 0..MaxTokens }

\* ------------------------------------------------------- process_indents
\* A width that skips one character more than the line feed.
curr_indent_skip_two(tok) == Len(tok.text) - 2

\* curr_token.text[1..].len()
curr_indent(tok) == Len(tok.text) - 1

\* indent_stack.last().unwrap_or(&0)
last_indent(stack) == IF stack = <<>> THEN 0 ELSE Last(stack)

\* An Indent token that does not copy the Newline's range and text.
IndentToken_bare(tok) == [kind |-> "Indent", text |-> <<>>, start |-> tok.start,
                          end |-> tok.start]

\* Token { kind: SyntaxKind::Indent, ..curr_token }
IndentToken(tok) == [tok EXCEPT !.kind = "Indent"]

\* Token { kind: SyntaxKind::Dedent, ..curr_token.clone() }
DedentToken(tok) == [tok EXCEPT !.kind = "Dedent"]

\* A closing Dedent that spans the whole output instead of being zero-width.
ZeroWidthDedent_spanning(end) == [kind |-> "Dedent", text |-> <<>>, start |-> 0,
                                  end |-> end + 1]

\* Token::new(SyntaxKind::Dedent, "", end..end)
ZeroWidthDedent(end) == Token("Dedent", <<>>, end, end)

\* A rewriter that does not skip the rest of the offending line.
SkipLine_none(toks, j, end) == [i |-> j, end |-> end]

\* The inner loop of the error arm: skip until the next Newline token.
\* j is the 0-based index to look at, end the end offset reached so far.
RECURSIVE SkipLine(_, _, _)
SkipLine(toks, j, end) ==
    IF j < Len(toks) /\ toks[j + 1].kind # "Newline"
    THEN SkipLine(toks, j + 1, toks[j + 1].end)
    ELSE [i |-> j, end |-> end]

\* Token { kind: SyntaxKind::Error, text: &source[start..end], range: start..end }
ErrorToken(src, start, end) == Token("Error", Slice(src, start, end), start, end)

\* A rewriter that forgets to put the old indent back.
PushBack_dropped(popped, old_indent) == popped

\* The stack after the error arm: indent_stack.push(old_indent)
PushBack(popped, old_indent) == Append(popped, old_indent)

\* A rewriter that does not stop at the first column.
IsFirstColumn_never(indent) == FALSE

\* if indent == 0 { break; }
IsFirstColumn(indent) == indent = 0

\* A rewriter that pops one level for a dedent, however deep the dedent is.
emit_dedents_once(src, toks, idx, stack, out, levels, trace) ==
    [stack |-> Front(stack),
     out |-> Append(out, [toks[idx + 1] EXCEPT !.kind = "Dedent"]),
     i |-> idx + 1,
     levels |-> Append(levels, Last(stack)),
     trace |-> Append(trace, Front(stack)),
     op |-> "dedent"]

\* The 'emit_dedents loop for the Newline token at index idx.  The result
\* carries the stack, the output, the index to continue at, the levels a
\* Dedent was emitted for, the stack after every pop and push (trace), and
\* which arm ended the loop ("panic" when pop().unwrap() finds no level).
RECURSIVE emit_dedents(_, _, _, _, _, _, _)
emit_dedents(src, toks, idx, stack, out, levels, trace) ==
    IF stack = <<>>
    THEN [stack |-> stack, out |-> out, i |-> idx, levels |-> levels,
          trace |-> trace, op |-> "panic"]
    ELSE
    LET curr_token == toks[idx + 1]
        old_indent == Last(stack)
        popped == Front(stack)
        new_last_indent == last_indent(popped)
        w == curr_indent(curr_token)
    IN  IF w < new_last_indent
        THEN emit_dedents(src, toks, idx, popped,
                          Append(out, DedentToken(curr_token)),
                          Append(levels, old_indent),
                          Append(trace, popped))
        ELSE IF w = new_last_indent
        THEN [stack |-> popped,
              out |-> Append(out, DedentToken(curr_token)),
              i |-> idx + 1,
              levels |-> Append(levels, old_indent),
              trace |-> Append(trace, popped),
              op |-> "dedent"]
        ELSE LET skipped == SkipLine(toks, idx + 1, curr_token.end)
             IN [stack |-> PushBack(popped, old_indent),
                 out |-> Append(out, ErrorToken(src, curr_token.start, skipped.end)),
                 i |-> skipped.i,
                 levels |-> levels,
                 trace |-> trace \o <<popped, PushBack(popped, old_indent)>>,
                 op |-> "inconsistent"]

\* The end of input: pop until level 0, one zero-width Dedent per level.
RECURSIVE end_of_input(_, _, _, _, _)
end_of_input(stack, out, end, levels, trace) ==
    IF stack = <<>>
    THEN [stack |-> stack, out |-> out, levels |-> levels, trace |-> trace]
    ELSE IF IsFirstColumn(Last(stack))
    THEN [stack |-> Front(stack), out |-> out, levels |-> levels,
          trace |-> Append(trace, Front(stack))]
    ELSE end_of_input(Front(stack), Append(out, ZeroWidthDedent(end)), end,
                      Append(levels, Last(stack)), Append(trace, Front(stack)))

\* ------------------------------------------------------------------ parse
\* tokenize: the lexer pairs a message with every offending token.  Any of
\* the tokens that are no Newline may be an offending one; the result is
\* the set of message lists the lexer can hand over, each in token order.
tokenize_messages(toks) ==
    LET others == {k \in 1..Len(toks) : toks[k].kind # "Newline"}
        Flagged(S) == SelectSeq([k \in 1..Len(toks) |-> k], LAMBDA k : k \in S)
    IN { [n \in 1..Len(Flagged(S)) |->
            [kind |-> "BadCharacter", start |-> toks[Flagged(S)[n]].start,
             end |-> toks[Flagged(S)[n]].end]] :
         S \in {S \in SUBSET others : Cardinality(S) <= MaxLexerMessages} }

\* The kinds of message the parser emits.
SyntacticKinds == {"Expected", "Missing", "UnexpectedToken", "UnexpectedEof"}

\* The kinds that report a token that is there.
UnexpectedKinds == {"Expected", "UnexpectedToken"}

\* parser.parse(): the parser may report a token it was not expecting, an
\* Error token or one the lexer reported.
parser_messages(toks, lexed) ==
    {<<>>} \cup
    { <<[kind |-> k, start |-> toks[n].start, end |-> toks[n].end]>> :
        k \in UnexpectedKinds,
        n \in {n \in 1..Len(toks) :
                 \/ toks[n].kind = "Error"
                 \/ \E m \in 1..Len(lexed) : lexed[m].start = toks[n].start} }

\* The message m put behind the messages of ms that start at or before it.
RECURSIVE InsertByStart(_, _)
InsertByStart(ms, m) ==
    IF ms = <<>> THEN <<m>>
    ELSE IF Last(ms).start <= m.start THEN Append(ms, m)
    ELSE Append(InsertByStart(Front(ms), m), Last(ms))

\* sink.finish(messages): the messages in source order, those of one
\* offset in the order they were emitted in.
RECURSIVE sink_finish(_)
sink_finish(ms) ==
    IF ms = <<>> THEN <<>>
    ELSE InsertByStart(sink_finish(Front(ms)), Last(ms))

\* What one step did, and the state it started from.
Step(op, trace) == [op |-> op, i0 |-> i, stack0 |-> indent_stack,
                    len0 |-> Len(processed_tokens), stacks |-> trace]

\* A step of process_indents / parse leaves the other components alone.
IndentFrame == UNCHANGED <<lexerVars, parserVars, catalogVars>>

\* The lexer, not running.
LexerIdle ==
    /\ lx_source = <<>>
    /\ cursor_pos = 0
    /\ consumed_chars = <<>>
    /\ mode_stack = <<>>
    /\ lx_tokens = <<>>
    /\ lx_pc = "idle"
    /\ lx_last = [call |-> "none", pos0 |-> 0, mode |-> "Normal"]

\* The parser, not running.
NoToken == [kind |-> "None", start |-> 0, end |-> 0]

ParserIdle ==
    /\ p_tokens = <<>>
    /\ p_trailing = FALSE
    /\ lexer_pos = 0
    /\ lexer_modes = <<>>
    /\ peeked_token = NoToken
    /\ nodes = <<>>
    /\ p_pc = "idle"

\* The catalog, not called.
CatalogIdle ==
    /\ cat_arg = [type |-> "none", kind |-> "none", chars |-> <<>>]
    /\ cat_op = "idle"
    /\ cat_out = [status |-> "none", value |-> "none"]

InitIndent ==
    /\ LexerIdle
    /\ ParserIdle
    /\ CatalogIdle
    /\ \E shapes \in ShapeVectors :
          /\ tokens = TokensFrom(shapes, 0)
          /\ source = ConcatTexts(TokensFrom(shapes, 0))
    /\ i = 0
    /\ indent_stack = <<0>>
    /\ processed_tokens = <<>>
    /\ pc = "loop"
    /\ last = [op |-> "init", i0 |-> 0, stack0 |-> <<0>>, len0 |-> 0,
               stacks |-> <<>>]
    /\ dedent_for = <<>>
    /\ messages \in tokenize_messages(tokens)

\* Ordering::Equal: push the token as is.
NewlineEqual ==
    /\ IndentFrame
    /\ pc = "loop" /\ i < Len(tokens)
    /\ tokens[i + 1].kind = "Newline"
    /\ curr_indent(tokens[i + 1]) = last_indent(indent_stack)
    /\ processed_tokens' = Append(processed_tokens, tokens[i + 1])
    /\ i' = i + 1
    /\ last' = Step("equal", <<>>)
    /\ UNCHANGED <<source, tokens, indent_stack, pc, dedent_for, messages>>

\* Ordering::Greater: push the level and an Indent token.
NewlineIndent ==
    /\ IndentFrame
    /\ pc = "loop" /\ i < Len(tokens)
    /\ tokens[i + 1].kind = "Newline"
    /\ curr_indent(tokens[i + 1]) > last_indent(indent_stack)
    /\ indent_stack' = Append(indent_stack, curr_indent(tokens[i + 1]))
    /\ processed_tokens' = Append(processed_tokens, IndentToken(tokens[i + 1]))
    /\ i' = i + 1
    /\ last' = Step("indent", <<indent_stack'>>)
    /\ UNCHANGED <<source, tokens, pc, dedent_for, messages>>

\* Ordering::Less: the 'emit_dedents loop, error arm included.
NewlineDedent ==
    /\ IndentFrame
    /\ pc = "loop" /\ i < Len(tokens)
    /\ tokens[i + 1].kind = "Newline"
    /\ curr_indent(tokens[i + 1]) < last_indent(indent_stack)
    /\ LET r == emit_dedents(source, tokens, i, indent_stack, processed_tokens,
                             dedent_for, <<>>)
       IN /\ indent_stack' = r.stack
          /\ processed_tokens' = r.out
          /\ i' = r.i
          /\ dedent_for' = r.levels
          /\ pc' = IF r.op = "panic" THEN "panic" ELSE pc
          /\ last' = Step(r.op, r.trace)
    /\ UNCHANGED <<source, tokens, messages>>

\* Any other token: push it as is.
OtherToken ==
    /\ IndentFrame
    /\ pc = "loop" /\ i < Len(tokens)
    /\ tokens[i + 1].kind # "Newline"
    /\ processed_tokens' = Append(processed_tokens, tokens[i + 1])
    /\ i' = i + 1
    /\ last' = Step("other", <<>>)
    /\ UNCHANGED <<source, tokens, indent_stack, pc, dedent_for, messages>>

\* The loop is over: the zero-width Dedents, and process_indents returns.
EndOfInput ==
    /\ IndentFrame
    /\ pc = "loop" /\ i >= Len(tokens)
    /\ LET end == IF processed_tokens = <<>> THEN 0 ELSE Last(processed_tokens).end
           r == end_of_input(indent_stack, processed_tokens, end, dedent_for, <<>>)
       IN /\ indent_stack' = r.stack
          /\ processed_tokens' = r.out
          /\ dedent_for' = r.levels
          /\ last' = Step("eof", r.trace)
    /\ pc' = "done"
    /\ UNCHANGED <<source, tokens, i, messages>>

\* A parse that returns the extended list as it is.
ParseFinish_extended ==
    /\ IndentFrame
    /\ pc = "done"
    /\ \E pm \in parser_messages(processed_tokens, messages) :
          messages' = messages \o pm
    /\ pc' = "parsed"
    /\ UNCHANGED <<source, tokens, i, indent_stack, processed_tokens, last,
                   dedent_for>>

\* parse, after process_indents: messages.extend(parser_messages) and
\* sink.finish(messages)
ParseFinish ==
    /\ IndentFrame
    /\ pc = "done"
    /\ \E pm \in parser_messages(processed_tokens, messages) :
          messages' = sink_finish(messages \o pm)
    /\ pc' = "parsed"
    /\ UNCHANGED <<source, tokens, i, indent_stack, processed_tokens, last,
                   dedent_for>>

NextIndent ==
    \/ NewlineEqual
    \/ NewlineIndent
    \/ NewlineDedent
    \/ OtherToken
    \/ EndOfInput
    \/ ParseFinish

SpecIndent == InitIndent /\ [][NextIndent]_vars

\* ------------------------------------------------ claims on process_indents
Count(kind, seq) == Cardinality({k \in 1..Len(seq) : seq[k].kind = kind})

\* Indents minus Dedents
Balance(seq) == Count("Indent", seq) - Count("Dedent", seq)

StrictlyIncreasing(s) == \A a, b \in 1..Len(s) : a < b => s[a] < s[b]

\* The vector tiles the source: every token's text is the slice of its range,
\* every token ends where the next starts, and the texts concatenate to the
\* source.
Tiles(src, toks) ==
    /\ \A k \in 1..Len(toks) : toks[k].text = Slice(src, toks[k].start, toks[k].end)
    /\ \A k \in 1..(Len(toks) - 1) : toks[k].end = toks[k + 1].start
    /\ ConcatTexts(toks) = src

\* C1: in every prefix of the output the number of Indent tokens minus the
\* number of Dedent tokens is >= 0; while the main loop runs it equals the
\* stack depth minus one; and over the returned vector it is exactly 0.
C1_IndentBalance ==
    /\ \A k \in 0..Len(processed_tokens) :
          Balance(SubSeq(processed_tokens, 1, k)) >= 0
    /\ pc = "loop" => Balance(processed_tokens) = Len(indent_stack) - 1
    /\ pc \in {"done", "parsed"} => Balance(processed_tokens) = 0

\* Two Indents, an inconsistent dedent, and zero-width Dedents at the end.
C1_Witness ==
    /\ pc = "done"
    /\ Count("Indent", processed_tokens) >= 2
    /\ Count("Error", processed_tokens) >= 1
    /\ \E k \in 1..Len(processed_tokens) :
          /\ processed_tokens[k].kind = "Dedent"
          /\ processed_tokens[k].start = processed_tokens[k].end

\* C2: the indentation stack is strictly increasing after every push, pop and
\* push-back, its bottom element is 0 (only the last pop at the end of input
\* empties it), and every Dedent emitted stands for a level greater than 0.
C2_StackMonotone ==
    /\ StrictlyIncreasing(indent_stack)
    /\ \A k \in 1..Len(last.stacks) : StrictlyIncreasing(last.stacks[k])
    /\ \A k \in 1..Len(last.stacks) :
          IF last.stacks[k] = <<>>
          THEN last.op = "eof" /\ k = Len(last.stacks)
          ELSE last.stacks[k][1] = 0
    /\ pc = "loop" => indent_stack # <<>> /\ indent_stack[1] = 0
    /\ Len(dedent_for) = Count("Dedent", processed_tokens)
    /\ \A k \in 1..Len(dedent_for) : dedent_for[k] > 0

\* A multi-level dedent and an error arm have run, and the input has ended.
C2_Witness ==
    /\ pc = "done"
    /\ Len(dedent_for) >= 3
    /\ Count("Error", processed_tokens) >= 1

\* C3: after the recovery from an inconsistent dedent the indentation stack
\* is the stack from before that Newline was processed.
C3_StackUnchanged ==
    last.op = "inconsistent" => indent_stack = last.stack0

\* C4: if the input vector tiles the source, the returned vector does too.
C4_OutputTiles ==
    (pc = "done" /\ Tiles(source, tokens)) => Tiles(source, processed_tokens)

\* C5: for every Error token the rewriter made of an inconsistent dedent,
\* the messages of the Parse hold an InconsistentDedent message whose range
\* is the range of that token.
C5_InconsistentDedentReported ==
    pc = "parsed" =>
        \A k \in 1..Len(processed_tokens) :
            processed_tokens[k].kind = "Error" =>
                \E m \in 1..Len(messages) :
                    /\ messages[m].kind = "InconsistentDedent"
                    /\ messages[m].start = processed_tokens[k].start
                    /\ messages[m].end = processed_tokens[k].end

\* C6: an inconsistent dedent appends exactly one Error token (after the
\* Dedents of the levels popped on the way): it starts at the Newline's start
\* and ends at the end of the last token before the next Newline (the
\* Newline's own end if none was skipped), its text is source[start..end],
\* no skipped token is in the output, and the loop resumes at the next
\* Newline token (or at the end of the input).
C6_ErrorToken ==
    last.op = "inconsistent" =>
        LET nl == tokens[last.i0 + 1]
            added == SubSeq(processed_tokens, last.len0 + 1, Len(processed_tokens))
            err == Last(processed_tokens)
        IN /\ pc = "loop"
           /\ nl.kind = "Newline"
           /\ Len(added) >= 1
           /\ err.kind = "Error"
           /\ \A k \in 1..(Len(added) - 1) : added[k].kind = "Dedent"
           /\ err.start = nl.start
           /\ i > last.i0
           /\ \A k \in (last.i0 + 2)..i : tokens[k].kind # "Newline"
           /\ err.end = tokens[i].end
           /\ err.text = Slice(source, err.start, err.end)
           /\ \A k \in (last.i0 + 1)..i : \A n \in 1..Len(processed_tokens) :
                 processed_tokens[n] # tokens[k]
           /\ i < Len(tokens) => tokens[i + 1].kind = "Newline"

\* An inconsistent dedent whose line holds two more tokens, followed by
\* another Newline.
C6_Witness ==
    /\ last.op = "inconsistent"
    /\ i = last.i0 + 3
    /\ i < Len(tokens)

\* C7: the returned vector is never shorter than the input vector.
C7_NotShorter ==
    pc = "done" => Len(processed_tokens) >= Len(tokens)

\* The tokens the last step appended.
Added == SubSeq(processed_tokens, last.len0 + 1, Len(processed_tokens))

\* The Newline token the last step of the main loop looked at, and its width.
LastNewline == tokens[last.i0 + 1]

LastWidth == Len(LastNewline.text) - 1

\* The last step handled a Newline token of the main loop.
NewlineStep == last.op \in {"equal", "indent", "dedent", "inconsistent"}

\* C13: for a Newline of width w with stack top t: if w = t exactly one
\* token is emitted, the Newline itself, and the stack is unchanged; if
\* w > t exactly one token is emitted, an Indent with the byte range and the
\* text of the Newline, and w is pushed as the new top.
C13_EqualAndIndent ==
    NewlineStep =>
        /\ LastNewline.kind = "Newline"
        /\ LastWidth = Last(last.stack0) <=> last.op = "equal"
        /\ LastWidth > Last(last.stack0) <=> last.op = "indent"
        /\ last.op = "equal" =>
              /\ Added = <<LastNewline>>
              /\ indent_stack = last.stack0
              /\ i = last.i0 + 1
        /\ last.op = "indent" =>
              /\ Len(Added) = 1
              /\ Added[1].kind = "Indent"
              /\ Added[1].start = LastNewline.start
              /\ Added[1].end = LastNewline.end
              /\ Added[1].text = LastNewline.text
              /\ indent_stack = Append(last.stack0, LastWidth)
              /\ Last(indent_stack) = LastWidth
              /\ i = last.i0 + 1

\* A second level of indentation is opened.
C13_Witness ==
    /\ last.op = "indent"
    /\ Len(last.stack0) = 2
    /\ Last(processed_tokens).kind = "Indent"
    /\ Len(Last(processed_tokens).text) = 3

\* The levels of a stack greater than w.
LevelsAbove(stack, w) == {k \in 1..Len(stack) : stack[k] > w}

\* w is one of the levels of the stack.
OnStack(stack, w) == \E k \in 1..Len(stack) : stack[k] = w

\* C14: for a Newline of width w smaller than the stack top, where w is one
\* of the levels of the stack (as 0 always is), exactly one Dedent per level
\* greater than w is emitted, no Error token is emitted, and the stack is
\* left with w as its top.
C14_ConsistentDedent ==
    /\ pc = "loop" => OnStack(indent_stack, 0)
    /\ (/\ NewlineStep
        /\ LastWidth < Last(last.stack0)
        /\ OnStack(last.stack0, LastWidth)) =>
            /\ last.op = "dedent"
            /\ Len(Added) = Cardinality(LevelsAbove(last.stack0, LastWidth))
            /\ \A k \in 1..Len(Added) : Added[k].kind = "Dedent"
            /\ indent_stack =
                  SubSeq(last.stack0, 1,
                         Len(last.stack0) - Cardinality(LevelsAbove(last.stack0, LastWidth)))
            /\ Last(indent_stack) = LastWidth
            /\ i = last.i0 + 1

\* A dedent over two levels down to a level that is not the first column.
C14_Witness ==
    /\ last.op = "dedent"
    /\ Len(last.stack0) = 4
    /\ Len(indent_stack) = 2
    /\ Len(Added) = 2

\* C15: at the end of the input exactly one Dedent is appended for every
\* nonzero level still on the stack, each zero-width with empty text and the
\* range [end, end), end being the end offset of the last token emitted
\* before (0 when there is none); none is appended for level 0.
C15_ClosingDedents ==
    last.op = "eof" =>
        LET end == IF last.len0 = 0 THEN 0 ELSE processed_tokens[last.len0].end
        IN /\ pc \in {"done", "parsed"}
           /\ Len(Added) = Cardinality(LevelsAbove(last.stack0, 0))
           /\ Len(Added) = Len(last.stack0) - 1
           /\ \A k \in 1..Len(Added) :
                 /\ Added[k].kind = "Dedent"
                 /\ Added[k].text = <<>>
                 /\ Added[k].start = end
                 /\ Added[k].end = end

\* Three levels are still open when the input ends.
C15_Witness ==
    /\ last.op = "eof"
    /\ Len(last.stack0) = 4
    /\ Len(Added) = 3
    /\ Last(processed_tokens).start > 0

\* The steps of the main loop.
MainLoopStep == last.op \in {"equal", "indent", "dedent", "inconsistent", "other"}

\* C26: during the main loop of process_indents the stack is never empty
\* and level 0 stays at its bottom: pop().unwrap() never panics, and no
\* stack that last().unwrap_or(&0) looks at, before, within or after a
\* step of the loop, is empty.
C26_StackNeverEmpty ==
    /\ pc # "panic"
    /\ pc = "loop" => indent_stack # <<>> /\ indent_stack[1] = 0
    /\ MainLoopStep =>
          /\ last.stack0 # <<>>
          /\ \A k \in 1..Len(last.stacks) :
                last.stacks[k] # <<>> /\ last.stacks[k][1] = 0

\* A dedent over two levels, down to level 0.
C26_Witness ==
    /\ pc = "loop"
    /\ last.op = "dedent"
    /\ Len(last.stack0) >= 3
    /\ indent_stack = <<0>>

Lexical(m) == m.kind = "BadCharacter"

SortedByStart(ms) == \A a, b \in 1..Len(ms) : a < b => ms[a].start <= ms[b].start

EmDash == "U+2014"
EnDash == "U+2013"
Sterling == "U+00A3"

\* What the cursor yields past the end of the source.
EofChar == "EOF"

Lower == {"a", "b", "c", "d", "e", "f", "g", "h", "i", "j", "k", "l", "m",
          "n", "o", "p", "q", "r", "s", "t", "u", "v", "w", "x", "y", "z"}
Upper == {"A", "B", "C", "D", "E", "F", "G", "H", "I", "J", "K", "L", "M",
          "N", "O", "P", "Q", "R", "S", "T", "U", "V", "W", "X", "Y", "Z"}
Digits == {"0", "1", "2", "3", "4", "5", "6", "7", "8", "9"}

is_identifier_start(c) == c \in Lower \cup Upper \cup {"_"}

is_identifier_continue(c) == c \in Lower \cup Upper \cup Digits \cup {"_"}

is_symbol(c) ==
    c \in {"&", "*", "@", "!", "^", ":", ",", "$", ".", EnDash, EmDash, "=",
           "-", "%", "+", "#", "?", ";", Sterling, "~", "|", "/", "\\", "<",
           ">", "{", "}", "[", "]", "(", ")"}

is_digit(c) == c \in Digits

is_whitespace(c) == c \in {" ", "\t", "\r", "\n"}

\* fn is_digit_continue of lex_number
is_digit_continue(c) == c \in {"_"} \cup Digits \cup Lower \cup Upper

\* The predicates handed to consume_while and consume_build.
Holds(predicate, c) ==
    CASE predicate = "is_whitespace" -> is_whitespace(c)
      [] predicate = "is_identifier_continue" -> is_identifier_continue(c)
      [] predicate = "is_digit_continue" -> is_digit_continue(c)

\* syntax::symbol_from_char
symbol_from_char(c) ==
    CASE c = "&" -> "Sym_Ampersand"   [] c = "*" -> "Sym_Asterisk"
      [] c = "@" -> "Sym_At"          [] c = "\\" -> "Sym_BackSlash"
      [] c = "!" -> "Sym_Bang"        [] c = "^" -> "Sym_Caret"
      [] c = ":" -> "Sym_Colon"       [] c = "," -> "Sym_Comma"
      [] c = "$" -> "Sym_Dollar"      [] c = "." -> "Sym_Dot"
      [] c = EmDash -> "Sym_EmDash"   [] c = EnDash -> "Sym_EnDash"
      [] c = "=" -> "Sym_Eq"          [] c = "/" -> "Sym_ForwardSlash"
      [] c = "-" -> "Sym_Minus"       [] c = "%" -> "Sym_Percent"
      [] c = "|" -> "Sym_Pipe"        [] c = "+" -> "Sym_Plus"
      [] c = "#" -> "Sym_Pound"       [] c = "?" -> "Sym_Question"
      [] c = ";" -> "Sym_Semicolon"   [] c = Sterling -> "Sym_Sterling"
      [] c = "~" -> "Sym_Tilde"       [] c = "<" -> "Sym_Lt"
      [] c = ">" -> "Sym_Gt"          [] c = "{" -> "Sym_LBrace"
      [] c = "}" -> "Sym_RBrace"      [] c = "[" -> "Sym_LBracket"
      [] c = "]" -> "Sym_RBracket"    [] c = "(" -> "Sym_LParen"
      [] c = ")" -> "Sym_RParen"
      [] OTHER -> "panic"

\* syntax::symbol_from_two_chars: the kind, or "None"
symbol_from_two_chars(a, b) ==
    CASE <<a, b>> = <<"!", "=">> -> "Sym_BangEq"
      [] <<a, b>> = <<"<", "=">> -> "Sym_LtEq"
      [] <<a, b>> = <<">", "=">> -> "Sym_GtEq"
      [] <<a, b>> = <<"<", "-">> -> "Sym_LThinArrow"
      [] <<a, b>> = <<"-", ">">> -> "Sym_RThinArrow"
      [] <<a, b>> = <<"=", ">">> -> "Sym_ThickArrow"
      [] OTHER -> "None"

\* The lexer's position in operators: lx = [pos, consumed].
\* cursor.nth(n)
peek_at(src, lx, n) ==
    IF lx.pos + n < Len(src) THEN src[lx.pos + n + 1] ELSE EofChar

\* self.peek()
peek(src, lx) == peek_at(src, lx, 0)

\* cursor.source_len() == 0
is_at_end(src, lx) == lx.pos >= Len(src)

\* A lexer that advances the cursor without recording the character.
next_char_unrecorded(src, lx) ==
    IF lx.pos < Len(src) THEN [lx EXCEPT !.pos = lx.pos + 1] ELSE lx

\* next_char: cursor.advance(), and the character is pushed on consumed_chars
next_char(src, lx) ==
    IF lx.pos < Len(src)
    THEN [pos |-> lx.pos + 1, consumed |-> Append(lx.consumed, src[lx.pos + 1])]
    ELSE lx

\* consume_while and consume_build: both advance while the predicate holds
RECURSIVE consume_while(_, _, _)
consume_while(src, lx, predicate) ==
    IF Holds(predicate, peek(src, lx)) /\ ~is_at_end(src, lx)
    THEN consume_while(src, next_char(src, lx), predicate)
    ELSE lx

\* Every lex_* operator yields [kind, lx]: the kind and the lexer after it.
lex_whitespace(src, lx) ==
    [kind |-> "Whitespace", lx |-> consume_while(src, lx, "is_whitespace")]

\* A lexer that never looks past the symbol character it was given.
lex_symbol_single(src, lx, symbol) ==
    [kind |-> symbol_from_char(symbol), lx |-> lx]

lex_symbol(src, lx, symbol) ==
    IF symbol = "?"
    THEN IF <<peek(src, lx), peek_at(src, lx, 1)>> = <<"?", "?">>
         THEN [kind |-> "Kwd_Unimplemented",
               lx |-> next_char(src, next_char(src, lx))]
         ELSE [kind |-> "Sym_Question", lx |-> lx]
    ELSE IF symbol_from_two_chars(symbol, peek(src, lx)) # "None"
         THEN [kind |-> symbol_from_two_chars(symbol, peek(src, lx)),
               lx |-> next_char(src, lx)]
         ELSE [kind |-> symbol_from_char(symbol), lx |-> lx]

\* The keyword table of lex_keyword_or_identifier.
KeywordTable ==
    { [text |-> <<"a","l","i","a","s">>, kind |-> "Kwd_Alias"],
      [text |-> <<"a","n","d">>, kind |-> "Kwd_And"],
      [text |-> <<"a","s">>, kind |-> "Kwd_As"],
      [text |-> <<"c","o","n","s","t">>, kind |-> "Kwd_Const"],
      [text |-> <<"e","l","s","e">>, kind |-> "Kwd_Else"],
      [text |-> <<"e","x","t","e","n","d">>, kind |-> "Kwd_Extend"],
      [text |-> <<"e","x","t","e","r","n","a","l">>, kind |-> "Kwd_External"],
      [text |-> <<"f","o","r">>, kind |-> "Kwd_For"],
      [text |-> <<"f","u","n","c","t","i","o","n">>, kind |-> "Kwd_Function"],
      [text |-> <<"i","f">>, kind |-> "Kwd_If"],
      [text |-> <<"i","m","p","o","r","t">>, kind |-> "Kwd_Import"],
      [text |-> <<"i","n">>, kind |-> "Kwd_In"],
      [text |-> <<"i","n","t","e","r","n","a","l">>, kind |-> "Kwd_Internal"],
      [text |-> <<"l","e","t">>, kind |-> "Kwd_Let"],
      [text |-> <<"m","a","t","c","h">>, kind |-> "Kwd_Match"],
      [text |-> <<"m","o","d","u","l","e">>, kind |-> "Kwd_Module"],
      [text |-> <<"n","o","t">>, kind |-> "Kwd_Not"],
      [text |-> <<"o","f">>, kind |-> "Kwd_Of"],
      [text |-> <<"o","r">>, kind |-> "Kwd_Or"],
      [text |-> <<"p","u","b","l","i","c">>, kind |-> "Kwd_Public"],
      [text |-> <<"r","e","f">>, kind |-> "Kwd_Ref"],
      [text |-> <<"r","e","t","u","r","n">>, kind |-> "Kwd_Return"],
      [text |-> <<"t","a","k","e">>, kind |-> "Kwd_Take"],
      [text |-> <<"t","y","p","e">>, kind |-> "Kwd_Type"],
      [text |-> <<"v","a","r">>, kind |-> "Kwd_Var"],
      [text |-> <<"w","h","e","r","e">>, kind |-> "Kwd_Where"],
      [text |-> <<"w","h","i","l","e">>, kind |-> "Kwd_While"],
      [text |-> <<"w","i","t","h">>, kind |-> "Kwd_With"] }

lex_keyword_or_identifier(string) ==
    IF \E k \in KeywordTable : k.text = string
    THEN (CHOOSE k \in KeywordTable : k.text = string).kind
    ELSE "Identifier"

lex_identifier(src, lx, first_char) ==
    LET after == consume_while(src, lx, "is_identifier_continue")
        rest == SubSeq(src, lx.pos + 1, after.pos)
    IN [kind |-> lex_keyword_or_identifier(<<first_char>> \o rest), lx |-> after]

lex_number(src, lx) ==
    LET digits == consume_while(src, lx, "is_digit_continue")
    IN IF peek(src, digits) = "." /\ peek_at(src, digits, 1) # "."
       THEN [kind |-> "Lit_Float",
             lx |-> consume_while(src, next_char(src, digits), "is_digit_continue")]
       ELSE [kind |-> "Lit_Integer", lx |-> digits]

\* The match of tokenize_normal on the character c just consumed; the kind
\* "todo" stands for the arm  c => todo!(..).
lex_dispatch(src, lx, c) ==
    IF is_whitespace(c) THEN lex_whitespace(src, lx)
    ELSE IF is_symbol(c) THEN lex_symbol(src, lx, c)
    ELSE IF is_identifier_start(c) THEN lex_identifier(src, lx, c)
    ELSE IF is_digit(c) THEN lex_number(src, lx)
    ELSE [kind |-> "todo", lx |-> lx]

\* self.mode_stack.last().cloned().unwrap_or_default()
current_mode(modes) == IF modes = <<>> THEN "Normal" ELSE Last(modes)

\* The sources the lexer is run on: all strings over one of three alphabets.
SymbolChars == {"?", "!", "=", "<", "-", ">"}
WordChars == {" ", "a", "s", "1", ".", "_"}
MixedChars == {"\n", "a", "1", "?", "=", "\""}
LetterChars == {"a", "d", "e", "l", "n", "v"}

LexSources ==
    UNION { [1..n -> alphabet] :
              n \in 0..MaxSourceLen,
              alphabet \in {SymbolChars, WordChars, MixedChars, LetterChars} }

\* process_indents and parse, not running.
IndentIdle ==
    /\ source = <<>>
    /\ tokens = <<>>
    /\ i = 0
    /\ indent_stack = <<>>
    /\ processed_tokens = <<>>
    /\ pc = "idle"
    /\ last = [op |-> "init", i0 |-> 0, stack0 |-> <<>>, len0 |-> 0,
               stacks |-> <<>>]
    /\ dedent_for = <<>>
    /\ messages = <<>>

\* A step of the lexer leaves the other components alone.
LexerFrame == UNCHANGED <<indentVars, parserVars, catalogVars>>

\* Lexer::new
InitLexer ==
    /\ IndentIdle
    /\ ParserIdle
    /\ CatalogIdle
    /\ lx_source \in LexSources
    /\ cursor_pos = 0
    /\ consumed_chars = <<>>
    /\ mode_stack = <<"Normal">>
    /\ lx_tokens = <<>>
    /\ lx_pc = "run"
    /\ lx_last = [call |-> "none", pos0 |-> 0, mode |-> "Normal"]

Called(result) == [call |-> result, pos0 |-> cursor_pos,
                   mode |-> current_mode(mode_stack)]

\* next() in Normal mode: tokenize_normal returns Some((kind, consumed)).
LexToken ==
    /\ LexerFrame
    /\ lx_pc \in {"run", "none"}
    /\ current_mode(mode_stack) = "Normal"
    /\ cursor_pos < Len(lx_source)
    /\ LET lx0 == [pos |-> cursor_pos, consumed |-> consumed_chars]
           lx1 == next_char(lx_source, lx0)
           r == lex_dispatch(lx_source, lx1, lx_source[cursor_pos + 1])
       IN /\ r.kind \notin {"todo", "panic"}
          /\ cursor_pos' = r.lx.pos
          /\ consumed_chars' = <<>>
          /\ lx_tokens' = Append(lx_tokens, [kind |-> r.kind, text |-> r.lx.consumed])
    /\ lx_pc' = "run"
    /\ lx_last' = Called("Some")
    /\ UNCHANGED <<lx_source, mode_stack>>

\* next() in Normal mode on a character of no class: todo!() panics.
LexTodo ==
    /\ LexerFrame
    /\ lx_pc \in {"run", "none"}
    /\ current_mode(mode_stack) = "Normal"
    /\ cursor_pos < Len(lx_source)
    /\ LET lx0 == [pos |-> cursor_pos, consumed |-> consumed_chars]
           lx1 == next_char(lx_source, lx0)
           r == lex_dispatch(lx_source, lx1, lx_source[cursor_pos + 1])
       IN /\ r.kind \in {"todo", "panic"}
          /\ cursor_pos' = r.lx.pos
          /\ consumed_chars' = r.lx.consumed
    /\ lx_pc' = "panic"
    /\ lx_last' = Called("panic")
    /\ UNCHANGED <<lx_source, mode_stack, lx_tokens>>

\* next() in Normal mode at the end of the source: next_char()? returns None.
LexNone ==
    /\ LexerFrame
    /\ lx_pc = "run"
    /\ current_mode(mode_stack) = "Normal"
    /\ cursor_pos >= Len(lx_source)
    /\ lx_pc' = "none"
    /\ lx_last' = Called("None")
    /\ UNCHANGED <<lx_source, cursor_pos, consumed_chars, mode_stack, lx_tokens>>

\* next() in Grouping mode: todo!("LexerMode::Grouping") panics.
LexGrouping ==
    /\ LexerFrame
    /\ lx_pc \in {"run", "none"}
    /\ current_mode(mode_stack) = "Grouping"
    /\ lx_pc' = "panic"
    /\ lx_last' = Called("panic")
    /\ UNCHANGED <<lx_source, cursor_pos, consumed_chars, mode_stack, lx_tokens>>

\* push_mode(LexerMode::Grouping), as the parser calls it between two tokens.
PushMode ==
    /\ LexerFrame
    /\ lx_pc = "run"
    /\ Len(mode_stack) < MaxModes
    /\ mode_stack' = Append(mode_stack, "Grouping")
    /\ UNCHANGED <<lx_source, cursor_pos, consumed_chars, lx_tokens, lx_pc, lx_last>>

NextLexer ==
    \/ LexToken
    \/ LexTodo
    \/ LexNone
    \/ LexGrouping
    \/ PushMode

SpecLexer == InitLexer /\ [][NextLexer]_vars

\* ------------------------------------------------------ claims on the lexer
Unrecognised(c) ==
    ~(is_whitespace(c) \/ is_symbol(c) \/ is_identifier_start(c) \/ is_digit(c))

\* C9: a character that is not whitespace, a symbol, an identifier start or
\* a digit yields a one-character Error token, and scanning continues with
\* the character after it.
C9_BadCharacterToken ==
    (/\ lx_last.call # "none"
     /\ lx_last.mode = "Normal"
     /\ lx_last.pos0 < Len(lx_source)
     /\ Unrecognised(lx_source[lx_last.pos0 + 1]))
    => /\ lx_pc = "run"
       /\ lx_tokens # <<>>
       /\ Last(lx_tokens) = [kind |-> "Error",
                             text |-> <<lx_source[lx_last.pos0 + 1]>>]
       /\ cursor_pos = lx_last.pos0 + 1

\* C10: every item next() returns holds at least one character and exactly
\* the characters consumed since the item before it, so the texts returned
\* so far concatenate to the consumed prefix of the source; and next()
\* returns None only at the end of the source.
C10_TokensCoverPrefix ==
    lx_pc \in {"run", "none"} =>
        /\ consumed_chars = <<>>
        /\ \A k \in 1..Len(lx_tokens) : Len(lx_tokens[k].text) >= 1
        /\ ConcatTexts(lx_tokens) = SubSeq(lx_source, 1, cursor_pos)
        /\ lx_last.call = "Some" =>
              /\ lx_tokens # <<>>
              /\ Last(lx_tokens).text = SubSeq(lx_source, lx_last.pos0 + 1, cursor_pos)
              /\ cursor_pos > lx_last.pos0
        /\ lx_last.call = "None" => cursor_pos = Len(lx_source)
        /\ lx_pc = "none" => cursor_pos = Len(lx_source)

\* Three tokens, one of them longer than a character, then None.
C10_Witness ==
    /\ lx_pc = "none"
    /\ Len(lx_tokens) = 3
    /\ \E k \in 1..3 : Len(lx_tokens[k].text) >= 2

\* The token the last call of next() returned, and the source from where
\* that call started.
LastToken == Last(lx_tokens)

Ahead(n) ==
    SubSeq(lx_source, lx_last.pos0 + 1,
           IF lx_last.pos0 + n <= Len(lx_source) THEN lx_last.pos0 + n
           ELSE Len(lx_source))

\* The two-character symbols.
TwoCharSymbols ==
    { [text |-> <<"!", "=">>, kind |-> "Sym_BangEq"],
      [text |-> <<"<", "=">>, kind |-> "Sym_LtEq"],
      [text |-> <<">", "=">>, kind |-> "Sym_GtEq"],
      [text |-> <<"<", "-">>, kind |-> "Sym_LThinArrow"],
      [text |-> <<"-", ">">>, kind |-> "Sym_RThinArrow"],
      [text |-> <<"=", ">">>, kind |-> "Sym_ThickArrow"] }

\* C16: symbol scanning is longest-match: a token that starts at one of
\* != <= >= <- -> => is that two-character symbol, a token that starts at
\* three question marks is the keyword Kwd_Unimplemented, and a question
\* mark not followed by two more is Sym_Question on its own, so that ? is
\* one Sym_Question and ?? is two.
C16_LongestMatch ==
    /\ lx_last.call = "Some" =>
          /\ \A sym \in TwoCharSymbols :
                Ahead(2) = sym.text => LastToken = [kind |-> sym.kind, text |-> sym.text]
          /\ Ahead(1) = <<"?">> =>
                IF Ahead(3) = <<"?", "?", "?">>
                THEN LastToken = [kind |-> "Kwd_Unimplemented", text |-> <<"?", "?", "?">>]
                ELSE LastToken = [kind |-> "Sym_Question", text |-> <<"?">>]
    /\ lx_pc = "none" =>
          /\ lx_source = <<"?">> =>
                lx_tokens = <<[kind |-> "Sym_Question", text |-> <<"?">>]>>
          /\ lx_source = <<"?", "?">> =>
                lx_tokens = <<[kind |-> "Sym_Question", text |-> <<"?">>],
                              [kind |-> "Sym_Question", text |-> <<"?">>]>>
          /\ lx_source = <<"?", "?", "?">> =>
                lx_tokens = <<[kind |-> "Kwd_Unimplemented", text |-> <<"?", "?", "?">>]>>

\* The source  ???<=  has been scanned to its end.
C16_Witness ==
    /\ lx_pc = "none"
    /\ lx_source = <<"?", "?", "?", "?">>
    /\ Len(lx_tokens) = 2
    /\ lx_tokens[1].kind = "Kwd_Unimplemented"

\* The end of the run of characters of a set that starts after position p.
RECURSIVE RunEnd(_, _, _)
RunEnd(src, p, set) ==
    IF p < Len(src) /\ src[p + 1] \in set THEN RunEnd(src, p + 1, set) ELSE p

DigitContinuation == Digits \cup Lower \cup Upper \cup {"_"}

\* C17: a number is Lit_Float only when its run of digit-continuation
\* characters is followed by a dot that is followed by a digit-continuation
\* character; in every other case (the dot is followed by a dot, by another
\* character, or by the end of the input) it is Lit_Integer and the dot is
\* not consumed.
C17_FloatPromotion ==
    (/\ lx_last.call = "Some"
     /\ Ahead(1) # <<>>
     /\ Ahead(1)[1] \in Digits) =>
        LET run == RunEnd(lx_source, lx_last.pos0, DigitContinuation)
            promoted == /\ run + 2 <= Len(lx_source)
                        /\ lx_source[run + 1] = "."
                        /\ lx_source[run + 2] \in DigitContinuation
        IN IF promoted
           THEN /\ LastToken.kind = "Lit_Float"
                /\ cursor_pos = RunEnd(lx_source, run + 1, DigitContinuation)
           ELSE /\ LastToken.kind = "Lit_Integer"
                /\ cursor_pos = run

\* helios-syntax KEYWORDS
KEYWORDS ==
    { <<"a","l","i","a","s">>, <<"a","n","d">>, <<"a","s">>,
      <<"b","e","g","i","n">>, <<"e","l","s","e">>, <<"e","n","d">>,
      <<"e","x","p","o","r","t">>, <<"e","x","t","e","r","n","a","l">>,
      <<"f","o","r">>, <<"f","o","r","a","l","l">>, <<"i","f">>,
      <<"i","m","p","o","r","t">>, <<"i","n">>, <<"l","e","t">>,
      <<"l","o","o","p">>, <<"m","a","t","c","h">>,
      <<"m","o","d","u","l","e">>, <<"n","o","t">>, <<"o","f">>, <<"o","r">>,
      <<"r","e","c">>, <<"r","e","f">>, <<"t","h","e","n">>,
      <<"t","y","p","e">>, <<"v","a","l">>, <<"w","h","i","l","e">>,
      <<"w","i","t","h">> }

KeywordKinds == { k.kind : k \in KeywordTable }

\* C18: an identifier-shaped lexeme gets a keyword kind exactly when it is
\* spelled like a keyword of the keyword set, and the kind Identifier
\* otherwise: no Identifier token is spelled like a keyword of the set.
C18_KeywordDisjoint ==
    (/\ lx_last.call = "Some"
     /\ Ahead(1) # <<>>
     /\ is_identifier_start(Ahead(1)[1])) =>
        IF LastToken.text \in KEYWORDS
        THEN LastToken.kind \in KeywordKinds
        ELSE LastToken.kind = "Identifier"

\* ================================================================== Parser
\* koi-syntax/src/parser.rs.  A token is [kind, start, end]; the kinds are
\* the variants of TokenKind, a Symbol(s), Keyword(k), Literal(l) or
\* GroupingStart/End(d) written by the name of s, k, l or d.
Symbols == {"Eq", "BangEq", "Lt", "Gt", "LtEq", "GtEq", "Plus", "Minus",
            "Asterisk", "ForwardSlash", "Bang", "Semicolon", "Question"}

GroupingStarts == {"LParen", "LBracket", "LBrace"}

\* GroupingEnd(delimiter) for GroupingStart(delimiter)
GroupingEnd(start) ==
    CASE start = "LParen" -> "RParen"
      [] start = "LBracket" -> "RBracket"
      [] start = "LBrace" -> "RBrace"

\* The token the model hands on once the parser has panicked.
PanicToken == [kind |-> "Panicked", start |-> 0, end |-> 0]

\* Token k of the stream covers [2k-2, 2k-1): one character, then a blank.
TokenAt(kinds, k) == [kind |-> kinds[k], start |-> 2 * k - 2, end |-> 2 * k - 1]

EofToken(ps) ==
    [kind |-> "Eof", start |-> 2 * Len(ps.toks), end |-> 2 * Len(ps.toks)]

\* The parser's state in operators:
\*   ps = [toks, trailing, pos, modes, peeked, panic, taken]
\* taken is history: the tokens next_token has returned, in order.
\* panic is "" until a panic!, todo! or unimplemented! is reached; from then
\* on no operation changes the state.
Panic(ps, what) == IF ps.panic = "" THEN [ps EXCEPT !.panic = what] ELSE ps

\* lexer.is_at_end(): nothing of the source is left
lexer_is_at_end(toks, trailing, pos) ==
    IF trailing THEN pos > Len(toks) ELSE pos >= Len(toks)

\* lexer.current_pos()
current_pos(ps) == ps.pos

\* lexer.next_token(): the next token of the stream, Eof once it is over;
\* in Grouping mode Lexer::next reaches todo!("LexerMode::Grouping").
lexer_next_token(ps) ==
    IF ps.panic # "" THEN [ps |-> ps, tok |-> PanicToken]
    ELSE IF current_mode(ps.modes) = "Grouping"
    THEN [ps |-> Panic(ps, "todo: LexerMode::Grouping"), tok |-> PanicToken]
    ELSE IF ps.pos < Len(ps.toks)
    THEN [ps |-> [ps EXCEPT !.pos = ps.pos + 1], tok |-> ps.toks[ps.pos + 1]]
    ELSE [ps |-> [ps EXCEPT !.pos = Len(ps.toks) + 1], tok |-> EofToken(ps)]

\* lexer.push_mode(LexerMode::Grouping)
push_mode(ps, mode) ==
    IF ps.panic # "" THEN ps ELSE [ps EXCEPT !.modes = Append(ps.modes, mode)]

\* A peek that does not keep the token it pulled.
parser_peek_forgetful(ps) ==
    IF ps.panic # "" THEN [ps |-> ps, tok |-> PanicToken]
    ELSE IF ps.peeked = NoToken THEN lexer_next_token(ps)
    ELSE [ps |-> ps, tok |-> ps.peeked]

\* Parser::peek
parser_peek(ps) ==
    IF ps.panic # "" THEN [ps |-> ps, tok |-> PanicToken]
    ELSE IF ps.peeked = NoToken
    THEN LET r == lexer_next_token(ps)
         IN IF r.ps.panic # "" THEN r
            ELSE [ps |-> [r.ps EXCEPT !.peeked = r.tok], tok |-> r.tok]
    ELSE [ps |-> ps, tok |-> ps.peeked]

\* Parser::next_token
parser_next_token(ps) ==
    IF ps.panic # "" THEN [ps |-> ps, tok |-> PanicToken]
    ELSE IF ps.peeked # NoToken
    THEN [ps |-> [ps EXCEPT !.peeked = NoToken, !.taken = Append(@, ps.peeked)],
          tok |-> ps.peeked]
    ELSE LET r == lexer_next_token(ps)
         IN IF r.ps.panic # "" THEN r
            ELSE [ps |-> [r.ps EXCEPT !.taken = Append(@, r.tok)], tok |-> r.tok]

\* Parser::check
check(ps, kind) ==
    LET r == parser_peek(ps) IN [ps |-> r.ps, ok |-> r.tok.kind = kind]

\* Parser::check_all, for the two kinds parse_expression_block_list asks for
check_all(ps, kinds) ==
    LET r == parser_peek(ps) IN [ps |-> r.ps, ok |-> r.tok.kind \in kinds]

\* A consume that takes the token from the stream even when it is not of the
\* expected kind.
consume_eager(ps, kind) ==
    LET r == parser_peek(ps)
    IN IF r.ps.panic # "" THEN [ps |-> r.ps, tok |-> PanicToken]
       ELSE IF r.tok.kind = kind THEN parser_next_token(r.ps)
       ELSE [ps |-> parser_next_token(r.ps).ps,
             tok |-> [kind |-> "Missing", of |-> kind,
                      start |-> r.tok.start, end |-> r.tok.start]]

\* Parser::consume
consume(ps, kind) ==
    LET r == parser_peek(ps)
    IN IF r.ps.panic # "" THEN [ps |-> r.ps, tok |-> PanicToken]
       ELSE IF r.tok.kind = kind THEN parser_next_token(r.ps)
       ELSE [ps |-> r.ps,
             tok |-> [kind |-> "Missing", of |-> kind,
                      start |-> r.tok.start, end |-> r.tok.start]]

\* Parser::try_consume
try_consume(ps, kind) ==
    LET r == check(ps, kind)
    IN IF r.ok THEN [ps |-> parser_next_token(r.ps).ps, ok |-> TRUE]
       ELSE [ps |-> r.ps, ok |-> FALSE]

\* prefix_binding_power: 0 stands for panic!("Bad operator")
prefix_binding_power(symbol) ==
    IF symbol \in {"Minus", "Bang"} THEN 9 ELSE 0

\* infix_binding_power with the two powers of the equality level exchanged
infix_binding_power_eq_left(symbol) ==
    CASE symbol \in {"Eq", "BangEq"} -> <<1, 2>>
      [] symbol \in {"Lt", "Gt", "LtEq", "GtEq"} -> <<3, 4>>
      [] symbol \in {"Plus", "Minus"} -> <<5, 6>>
      [] symbol \in {"Asterisk", "ForwardSlash"} -> <<7, 8>>
      [] OTHER -> <<0, 0>>

\* infix_binding_power: <<0, 0>> stands for panic!("Bad operator")
infix_binding_power(symbol) ==
    CASE symbol \in {"Eq", "BangEq"} -> <<2, 1>>
      [] symbol \in {"Lt", "Gt", "LtEq", "GtEq"} -> <<3, 4>>
      [] symbol \in {"Plus", "Minus"} -> <<5, 6>>
      [] symbol \in {"Asterisk", "ForwardSlash"} -> <<7, 8>>
      [] OTHER -> <<0, 0>>

\* Every parse_* operator yields [ps, node].
RECURSIVE parse_expression(_)
RECURSIVE parse_let_expression(_)
RECURSIVE parse_if_expression(_)
RECURSIVE parse_else_clause(_)
RECURSIVE parse_expression_block(_)
RECURSIVE parse_expression_block_list(_)
RECURSIVE block_list_loop(_, _)
RECURSIVE parse_binary_expression(_, _)
RECURSIVE binary_loop(_, _, _)
RECURSIVE parse_unary_expression(_)
RECURSIVE parse_primary(_)

\* Each intermediate result is bound by  x \in {e}  so that it is computed
\* once, in the order of the code.
parse_program(ps) ==
    The({ The({
        IF b.ok THEN [ps |-> b.ps, node |-> [type |-> "Eof"]]
        ELSE The({ [ps |-> e.ps,
                    node |-> [type |-> "ExpressionNode", expr |-> e.node]]
                   : e \in {parse_expression(b.ps)} })
      : b \in {try_consume(a.ps, "Eof")} })
      : a \in {try_consume(ps, "Newline")} })

\* A parse_expression that leaves the Eof it finds in the stream.
parse_expression_eof_kept(ps) ==
    The({
        IF a.ok
        THEN [ps |-> a.ps, node |-> [type |-> "Missing", pos |-> current_pos(a.ps)]]
        ELSE The({
            IF b.ok
            THEN [ps |-> b.ps, node |-> [type |-> "Unexpected", kind |-> "Newline",
                                         pos |-> current_pos(b.ps)]]
            ELSE The({
                IF c.ok THEN parse_let_expression(c.ps)
                ELSE The({
                    IF d.ok THEN parse_if_expression(d.ps)
                    ELSE parse_binary_expression(d.ps, 0)
                  : d \in {try_consume(c.ps, "If")} })
              : c \in {try_consume(b.ps, "Let")} })
          : b \in {try_consume(a.ps, "Newline")} })
      : a \in {check(ps, "Eof")} })

parse_expression(ps) ==
    The({
        IF a.ok
        THEN [ps |-> a.ps, node |-> [type |-> "Missing", pos |-> current_pos(a.ps)]]
        ELSE The({
            IF b.ok
            THEN [ps |-> b.ps, node |-> [type |-> "Unexpected", kind |-> "Newline",
                                         pos |-> current_pos(b.ps)]]
            ELSE The({
                IF c.ok THEN parse_let_expression(c.ps)
                ELSE The({
                    IF d.ok THEN parse_if_expression(d.ps)
                    ELSE parse_binary_expression(d.ps, 0)
                  : d \in {try_consume(c.ps, "If")} })
              : c \in {try_consume(b.ps, "Let")} })
          : b \in {try_consume(a.ps, "Newline")} })
      : a \in {try_consume(ps, "Eof")} })

parse_let_expression(ps) ==
    The({ The({ The({
        [ps |-> e.ps,
         node |-> [type |-> "LocalBinding", identifier |-> id.tok,
                   equal_symbol |-> eq.tok, expression |-> e.node]]
      : e \in {parse_expression_block(eq.ps)} })
      : eq \in {consume(id.ps, "Eq")} })
      : id \in {consume(ps, "Identifier")} })

parse_if_expression(ps) ==
    The({ The({ The({ The({ The({
        IF else.ok
        THEN The({ [ps |-> clause.ps,
                    node |-> [type |-> "If", pattern |-> pattern.node,
                              then_keyword |-> then.tok, expression |-> e.node,
                              else_clause |-> <<clause.node>>]]
                   : clause \in {parse_else_clause(else.ps)} })
        ELSE [ps |-> else.ps,
              node |-> [type |-> "If", pattern |-> pattern.node,
                        then_keyword |-> then.tok, expression |-> e.node,
                        else_clause |-> <<>>]]
      : else \in {try_consume(nl.ps, "Else")} })
      : nl \in {try_consume(e.ps, "Newline")} })
      : e \in {parse_expression_block(then.ps)} })
      : then \in {consume(pattern.ps, "Then")} })
      : pattern \in {parse_expression(ps)} })

parse_else_clause(ps) ==
    The({ IF a.ok THEN parse_if_expression(a.ps) ELSE parse_expression_block(a.ps)
          : a \in {try_consume(ps, "If")} })

parse_expression_block(ps) ==
    The({ IF a.ok THEN parse_expression_block_list(a.ps) ELSE parse_expression(a.ps)
          : a \in {try_consume(ps, "Begin")} })

\* while self.check_all(&[Newline, Symbol(Semicolon)]) { next_token; parse_expression }
block_list_loop(ps, expressions) ==
    The({
        IF c.ok
        THEN The({ The({ block_list_loop(e.ps, Append(expressions, e.node))
                         : e \in {parse_expression(t.ps)} })
                   : t \in {parser_next_token(c.ps)} })
        ELSE [ps |-> c.ps, expressions |-> expressions]
      : c \in {check_all(ps, {"Newline", "Semicolon"})} })

parse_expression_block_list(ps) ==
    The({ The({ The({
        [ps |-> end.ps, node |-> [type |-> "Block", expressions |-> rest.expressions]]
      : end \in {consume(rest.ps, "End")} })
      : rest \in {block_list_loop(first.ps, <<first.node>>)} })
      : first \in {parse_expression(ps)} })

\* The loop of parse_binary_expression without its test against
\* min_precedence.
binary_loop_no_min(ps, lhs, min_precedence) ==
    The({
        IF p.tok.kind \notin Symbols THEN [ps |-> p.ps, node |-> lhs]
        ELSE The({
            IF bp = <<0, 0>> THEN [ps |-> Panic(p.ps, "Bad operator"), node |-> lhs]
            ELSE The({ The({
                binary_loop(rhs.ps,
                            [type |-> "Binary", operator |-> operator.tok,
                             lhs |-> lhs, rhs |-> rhs.node],
                            min_precedence)
              : rhs \in {parse_binary_expression(operator.ps, bp[2])} })
              : operator \in {parser_next_token(p.ps)} })
          : bp \in {infix_binding_power(p.tok.kind)} })
      : p \in {parser_peek(ps)} })

\* The loop of parse_binary_expression.
binary_loop(ps, lhs, min_precedence) ==
    The({
        IF p.tok.kind \notin Symbols THEN [ps |-> p.ps, node |-> lhs]
        ELSE The({
            IF bp = <<0, 0>> THEN [ps |-> Panic(p.ps, "Bad operator"), node |-> lhs]
            ELSE IF bp[1] < min_precedence THEN [ps |-> p.ps, node |-> lhs]
            ELSE The({ The({
                binary_loop(rhs.ps,
                            [type |-> "Binary", operator |-> operator.tok,
                             lhs |-> lhs, rhs |-> rhs.node],
                            min_precedence)
              : rhs \in {parse_binary_expression(operator.ps, bp[2])} })
              : operator \in {parser_next_token(p.ps)} })
          : bp \in {infix_binding_power(p.tok.kind)} })
      : p \in {parser_peek(ps)} })

parse_binary_expression(ps, min_precedence) ==
    The({
        IF b.ok THEN parse_expression_block(b.ps)
        ELSE The({ binary_loop(lhs.ps, lhs.node, min_precedence)
                   : lhs \in {parse_unary_expression(b.ps)} })
      : b \in {check(ps, "Begin")} })

parse_unary_expression(ps) ==
    The({
        IF p.tok.kind \in Symbols
        THEN The({ The({
            IF right_precedence = 0
            THEN [ps |-> Panic(t.ps, "Bad operator"), node |-> [type |-> "Panicked"]]
            ELSE The({ [ps |-> operand.ps,
                        node |-> [type |-> "Unary", token |-> p.tok,
                                  operand |-> operand.node]]
                       : operand \in {parse_binary_expression(t.ps, right_precedence)} })
          : right_precedence \in {prefix_binding_power(p.tok.kind)} })
          : t \in {parser_next_token(p.ps)} })
        ELSE parse_primary(p.ps)
      : p \in {parser_peek(ps)} })

parse_primary(ps) ==
    The({
        CASE t.tok.kind = "Identifier" -> [ps |-> t.ps, node |-> [type |-> "Identifier"]]
          [] t.tok.kind = "False" ->
               [ps |-> t.ps, node |-> [type |-> "Boolean", value |-> FALSE]]
          [] t.tok.kind = "True" ->
               [ps |-> t.ps, node |-> [type |-> "Boolean", value |-> TRUE]]
          [] t.tok.kind = "Integer" ->
               [ps |-> t.ps, node |-> [type |-> "Integer", token |-> t.tok]]
          [] t.tok.kind = "Float" ->
               [ps |-> t.ps, node |-> [type |-> "Float", token |-> t.tok]]
          [] t.tok.kind \in {"String", "Character"} ->
               [ps |-> Panic(t.ps, "unimplemented: Literal"),
                node |-> [type |-> "Panicked"]]
          [] t.tok.kind \in GroupingStarts ->
               The({ The({ The({
                   [ps |-> end.ps,
                    node |-> [type |-> "Grouped", start_delimiter |-> t.tok,
                              expression |-> e.node, end_delimiter |-> end.tok]]
                 : end \in {consume(e.ps, GroupingEnd(t.tok.kind))} })
                 : e \in {parse_expression(pushed)} })
                 : pushed \in {push_mode(t.ps, "Grouping")} })
          [] OTHER ->
               [ps |-> t.ps, node |-> [type |-> "Unexpected", kind |-> t.tok.kind,
                                       pos |-> current_pos(t.ps)]]
      : t \in {parser_next_token(ps)} })

\* The token streams the parser is run on: all streams over one of four
\* vocabularies.
ExprVocab == {"Identifier", "Integer", "Plus", "Asterisk", "Eq", "Minus"}
StmtVocab == {"Let", "If", "Then", "Else", "Identifier", "Eq"}
BlockVocab == {"Begin", "End", "Identifier", "Newline", "Semicolon", "Let"}
OddVocab == {"Identifier", "Question", "Bang", "LParen", "RParen", "String"}

\* The symbols infix_binding_power gives a binding power.
InfixOperators == {"Eq", "BangEq", "Lt", "Gt", "LtEq", "GtEq", "Plus", "Minus",
                   "Asterisk", "ForwardSlash"}

\* first, then n times a token of seps followed by an item:  x s x s x
Chain(first, seps, items, n) ==
    { [k \in 1..(2 * n + 1) |->
          IF k = 1 THEN first ELSE IF k % 2 = 0 THEN f[k \div 2] ELSE g[k \div 2]]
      : f \in [1..n -> seps], g \in [1..n -> items] }

\* Operator expressions  x op y op z ...  with up to MaxChain operators.
OperatorChains ==
    UNION { Chain("Identifier", InfixOperators, {"Identifier"}, n) : n \in 0..MaxChain }

\* Blocks  Begin x sep x ... End  with up to MaxChain separators, and the same
\* without the closing End.
BlockStreams ==
    UNION { { <<"Begin">> \o c \o close :
                c \in Chain("Identifier", {"Newline", "Semicolon"},
                            {"Identifier", "Integer"}, n),
                close \in {<<>>, <<"End">>} }
            : n \in 0..MaxChain }

KindStreams ==
    UNION { [1..n -> vocab] :
              n \in 0..MaxParseTokens,
              vocab \in {ExprVocab, StmtVocab, BlockVocab, OddVocab} }
      \cup OperatorChains \cup BlockStreams

\* A step of the parser leaves the other components alone.
ParserFrame == UNCHANGED <<indentVars, lexerVars, catalogVars>>

\* Parser::with(lexer)
InitParser ==
    /\ IndentIdle
    /\ LexerIdle
    /\ CatalogIdle
    /\ \E kinds \in KindStreams :
          p_tokens = [k \in 1..Len(kinds) |-> TokenAt(kinds, k)]
    /\ p_trailing \in BOOLEAN
    /\ lexer_pos = 0
    /\ lexer_modes = <<"Normal">>
    /\ peeked_token = NoToken
    /\ nodes = <<>>
    /\ p_pc = "run"

ParserState ==
    [toks |-> p_tokens, trailing |-> p_trailing, pos |-> lexer_pos,
     modes |-> lexer_modes, peeked |-> peeked_token, panic |-> "",
     taken |-> <<>>]

\* One turn of the loop of Parser::parse: nodes.push(self.parse_program())
ParseProgram ==
    /\ ParserFrame
    /\ p_pc = "run"
    /\ ~lexer_is_at_end(p_tokens, p_trailing, lexer_pos)
    /\ LET r == parse_program(ParserState)
       IN /\ r.ps.panic = ""
          /\ lexer_pos' = r.ps.pos
          /\ lexer_modes' = r.ps.modes
          /\ peeked_token' = r.ps.peeked
          /\ nodes' = Append(nodes, r.node)
    /\ UNCHANGED <<p_tokens, p_trailing, p_pc>>

\* One turn of the loop in which parse_program panics.
ParsePanic ==
    /\ ParserFrame
    /\ p_pc = "run"
    /\ ~lexer_is_at_end(p_tokens, p_trailing, lexer_pos)
    /\ LET r == parse_program(ParserState)
       IN /\ r.ps.panic # ""
          /\ lexer_pos' = r.ps.pos
          /\ lexer_modes' = r.ps.modes
          /\ peeked_token' = r.ps.peeked
    /\ p_pc' = "panic"
    /\ UNCHANGED <<p_tokens, p_trailing, nodes>>

\* The loop ends: Parser::parse returns the nodes.
ParseReturn ==
    /\ ParserFrame
    /\ p_pc = "run"
    /\ lexer_is_at_end(p_tokens, p_trailing, lexer_pos)
    /\ p_pc' = "done"
    /\ UNCHANGED <<p_tokens, p_trailing, lexer_pos, lexer_modes, peeked_token, nodes>>

NextParser ==
    \/ ParseProgram
    \/ ParsePanic
    \/ ParseReturn

SpecParser == InitParser /\ [][NextParser]_vars

\* ----------------------------------------------------- claims on the parser
\* C8: parsing never fails: for every token stream the parser returns a
\* result and never panics; an unexpected token becomes an error value.
C8_NeverPanics ==
    p_pc # "panic"

\* The precedence level of an infix operator, highest first:
\* * /  above  + -  above  < > <= >=  above  = !=
Level(op) ==
    CASE op \in {"Asterisk", "ForwardSlash"} -> 4
      [] op \in {"Plus", "Minus"} -> 3
      [] op \in {"Lt", "Gt", "LtEq", "GtEq"} -> 2
      [] op \in {"Eq", "BangEq"} -> 1

IdentifierNode == [type |-> "Identifier"]

BinaryNode(operator, lhs, rhs) ==
    [type |-> "Binary", operator |-> operator, lhs |-> lhs, rhs |-> rhs]

\* The stream is  x op1 y op2 z  with both operators infix operators.
TwoOperators ==
    /\ Len(p_tokens) = 5
    /\ \A k \in {1, 3, 5} : p_tokens[k].kind = "Identifier"
    /\ \A k \in {2, 4} : p_tokens[k].kind \in InfixOperators

\* x op1 (y op2 z)
RightNested ==
    [type |-> "ExpressionNode",
     expr |-> BinaryNode(p_tokens[2], IdentifierNode,
                         BinaryNode(p_tokens[4], IdentifierNode, IdentifierNode))]

\* (x op1 y) op2 z
LeftNested ==
    [type |-> "ExpressionNode",
     expr |-> BinaryNode(p_tokens[4],
                         BinaryNode(p_tokens[2], IdentifierNode, IdentifierNode),
                         IdentifierNode)]

\* C11: operator precedence.  With L of a lower level than H,  x L y H z
\* parses as Binary(L, x, Binary(H, y, z))  and  x H y L z  as
\* Binary(L, Binary(H, x, y), z); the loop goes on at the second operator
\* exactly when its left binding power is at least the min_precedence it
\* was called with, the right binding power of the first.
C11_Precedence ==
    TwoOperators =>
        /\ p_pc # "panic"
        /\ nodes # <<>> =>
              LET op1 == p_tokens[2].kind
                  op2 == p_tokens[4].kind
              IN /\ Level(op1) < Level(op2) => nodes[1] = RightNested
                 /\ Level(op1) > Level(op2) => nodes[1] = LeftNested
                 /\ nodes[1] \in {RightNested, LeftNested}
                 /\ nodes[1] = RightNested <=>
                        infix_binding_power(op2)[1] >= infix_binding_power(op1)[2]

C11_Witness ==
    /\ TwoOperators
    /\ p_tokens[2].kind = "Lt"
    /\ p_tokens[4].kind = "ForwardSlash"
    /\ p_pc = "done"
    /\ nodes = <<RightNested>>

\* C12: associativity.  A chain of two equality operators parses to the
\* right,  a = b = c  as Binary(=, a, Binary(=, b, c));  a chain of two
\* operators of one arithmetic or comparison level parses to the left,
\* a - b - c  as Binary(-, Binary(-, a, b), c).
C12_Associativity ==
    (TwoOperators /\ Level(p_tokens[2].kind) = Level(p_tokens[4].kind)) =>
        /\ p_pc # "panic"
        /\ nodes # <<>> =>
              IF Level(p_tokens[2].kind) = 1
              THEN nodes[1] = RightNested
              ELSE nodes[1] = LeftNested

C12_Witness ==
    /\ TwoOperators
    /\ p_tokens[2].kind = "Eq"
    /\ p_tokens[4].kind = "BangEq"
    /\ p_pc = "done"
    /\ nodes = <<RightNested>>

\* Token k of the stream, the Eof token when the stream is over.
TokenOrEof(k) ==
    IF k <= Len(p_tokens) THEN p_tokens[k]
    ELSE [kind |-> "Eof", start |-> 2 * Len(p_tokens), end |-> 2 * Len(p_tokens)]

\* The zero-width Missing token for an expected kind, at token k.
MissingAt(kind, k) ==
    [kind |-> "Missing", of |-> kind,
     start |-> TokenOrEof(k).start, end |-> TokenOrEof(k).start]

\* A parser that has consumed the first k tokens and peeked none.
FreshAfter(k) ==
    [toks |-> p_tokens, trailing |-> p_trailing, pos |-> k,
     modes |-> <<"Normal">>, peeked |-> NoToken, panic |-> "", taken |-> <<>>]

WellFormedBlock ==
    /\ Len(p_tokens) >= 3
    /\ Len(p_tokens) % 2 = 1
    /\ p_tokens[1].kind = "Begin"
    /\ Last(p_tokens).kind = "End"
    /\ \A k \in 2..(Len(p_tokens) - 1) :
          IF k % 2 = 0 THEN p_tokens[k].kind \in {"Identifier", "Integer"}
          ELSE p_tokens[k].kind \in {"Newline", "Semicolon"}

\* The node of the inner expression at token k.
InnerNode(k) ==
    IF p_tokens[k].kind = "Identifier" THEN IdentifierNode
    ELSE [type |-> "Integer", token |-> p_tokens[k]]

\* C20: a block yields one block node whose children are the inner
\* expressions in source order, the inner expressions being those separated
\* by Newline or ; tokens; the closing token ends the block and is no child.
C20_BlockChildren ==
    /\ WellFormedBlock =>
          /\ p_pc # "panic"
          /\ nodes # <<>> =>
                nodes[1] =
                  [type |-> "ExpressionNode",
                   expr |-> [type |-> "Block",
                             expressions |->
                               [n \in 1..((Len(p_tokens) - 1) \div 2) |-> InnerNode(2 * n)]]]
    /\ (/\ p_tokens # <<>>
        /\ p_tokens[1].kind = "Begin"
        /\ nodes # <<>>
        /\ nodes[1].type = "ExpressionNode"
        /\ nodes[1].expr.type = "Block") =>
            \A n \in 1..Len(nodes[1].expr.expressions) :
                LET child == nodes[1].expr.expressions[n]
                IN ~(child.type = "Unexpected" /\ child.kind = "End")

\* --------------------------------------- lookahead, progress, termination
\* Token k of what the parser's lexer yields: the stream, then Eof for ever.
Stream(k) ==
    IF k <= Len(p_tokens) THEN p_tokens[k]
    ELSE [kind |-> "Eof", start |-> 2 * Len(p_tokens), end |-> 2 * Len(p_tokens)]

\* The tokens a parser state holds in its lookahead.
Held(ps) == IF ps.peeked = NoToken THEN <<>> ELSE <<ps.peeked>>

\* The number of tokens next_token has returned by the time of a state whose
\* lexer is not past the stream.
Consumed(ps) == ps.pos - Len(Held(ps))

\* A turn of the loop of Parser::parse is about to run.
Turn == p_pc = "run" /\ ~lexer_is_at_end(p_tokens, p_trailing, lexer_pos)

\* The kinds check, consume and try_consume are asked for.
AskedKinds == {"Newline", "Eof", "Let", "If", "Then", "Else", "Begin", "End",
               "Identifier", "Eq"}

\* C27: the one-token lookahead is transparent.  Consecutive peek and
\* check calls pull one token, or none when one is held, and return the
\* same token; the next_token, consume or try_consume that follows returns
\* that token without pulling another; and over a whole turn of the loop
\* the tokens next_token returned, followed by the token still held, are
\* the lexer's tokens from where the turn started, in order, none lost and
\* none repeated.
C27_LookaheadTransparent ==
    Turn =>
        LET ps == ParserState
            a == parser_peek(ps)
            b == parser_peek(a.ps)
            n == parser_next_token(a.ps)
            r == parse_program(ps)
            seen == r.ps.taken \o Held(r.ps)
        IN /\ a.tok = Stream(Consumed(ps) + 1)
           /\ a.ps.pos = Consumed(ps) + 1
           /\ b = a
           /\ \A k \in AskedKinds :
                 /\ check(a.ps, k).ps = a.ps
                 /\ check(ps, k) = [ps |-> a.ps, ok |-> a.tok.kind = k]
                 /\ try_consume(ps, k) =
                       IF a.tok.kind = k THEN [ps |-> n.ps, ok |-> TRUE]
                       ELSE [ps |-> a.ps, ok |-> FALSE]
                 /\ a.tok.kind = k => consume(ps, k) = n
                 /\ a.tok.kind # k => consume(ps, k).ps = a.ps
           /\ n.tok = a.tok
           /\ n.ps = [a.ps EXCEPT !.peeked = NoToken, !.taken = <<a.tok>>]
           /\ \A j \in 1..Len(seen) : seen[j] = Stream(Consumed(ps) + j)
           /\ r.ps.pos <= Len(p_tokens) => Consumed(ps) + Len(seen) = r.ps.pos
           /\ r.ps.pos > Len(p_tokens) => Consumed(ps) + Len(seen) >= r.ps.pos

\* A turn that starts with a token held and takes three tokens or more.
C27_Witness ==
    /\ Turn
    /\ peeked_token # NoToken
    /\ Len(parse_program(ParserState).ps.taken) >= 3
    /\ parse_program(ParserState).ps.panic = ""

\* C28: when Parser::parse returns, no token other than Eof is held
\* unconsumed in peeked_token: every token of the stream went into a node.
C28_NothingLeftPeeked ==
    p_pc = "done" => peeked_token.kind \in {"None", "Eof"}

\* The parse_* calls, which reach one another and themselves.
RecursiveCalls(ps) ==
    { parse_program(ps), parse_expression(ps), parse_let_expression(ps),
      parse_if_expression(ps), parse_else_clause(ps), parse_expression_block(ps),
      parse_expression_block_list(ps), parse_binary_expression(ps, 0),
      parse_binary_expression(ps, 9), parse_unary_expression(ps),
      parse_primary(ps) }

\* C29: every parse_program consumes at least one token and every parse_*
\* call that returns has consumed at least one, so that Parser::parse comes
\* to an end on every token stream: with every turn of the loop the lexer
\* moves forward, which it does no further than the Eof after the last
\* token, so that there are no more turns than tokens and the Eof.
C29_Terminates ==
    [][(p_pc = "run" /\ nodes' # nodes) =>
          /\ lexer_pos' > lexer_pos
          /\ lexer_pos' <= Len(p_tokens) + 1
          /\ lexer_pos' - Len(Held([peeked |-> peeked_token'])) >
                lexer_pos - Len(Held([peeked |-> peeked_token]))
          /\ Len(nodes') <= Len(p_tokens) + 1
          /\ \A r \in RecursiveCalls(ParserState) :
                r.ps.panic = "" => r.ps.taken # <<>>]_vars

\* Three turns of the loop, and then the return.
C29_Witness ==
    /\ p_pc = "done"
    /\ Len(nodes) >= 3
    /\ lexer_pos = Len(p_tokens) + 1

\* ================================================= The syntax kind catalog
\* helios-syntax/src/lib.rs.  A SyntaxKind is written by its name; a
\* spelling is a sequence of characters.
\* enum SyntaxKind, in the order of its declaration
SyntaxKind ==
    << "Kwd_Alias", "Kwd_And", "Kwd_As", "Kwd_Begin", "Kwd_Else", "Kwd_End",
       "Kwd_Export", "Kwd_External", "Kwd_For", "Kwd_Forall", "Kwd_If",
       "Kwd_Import", "Kwd_In", "Kwd_Let", "Kwd_Loop", "Kwd_Match",
       "Kwd_Module", "Kwd_Not", "Kwd_Of", "Kwd_Or", "Kwd_Rec", "Kwd_Ref",
       "Kwd_Then", "Kwd_Type", "Kwd_Unimplemented", "Kwd_Val", "Kwd_While",
       "Kwd_With",
       "Sym_Ampersand", "Sym_Asterisk", "Sym_At", "Sym_BackSlash", "Sym_Bang",
       "Sym_BangEq", "Sym_Caret", "Sym_Colon", "Sym_Comma", "Sym_Dollar",
       "Sym_Dot", "Sym_EmDash", "Sym_EnDash", "Sym_Eq", "Sym_ForwardSlash",
       "Sym_Minus", "Sym_Percent", "Sym_Pipe", "Sym_Plus", "Sym_Pound",
       "Sym_Question", "Sym_Semicolon", "Sym_Sterling", "Sym_Tilde",
       "Sym_Lt", "Sym_LtEq", "Sym_Gt", "Sym_GtEq", "Sym_LThinArrow",
       "Sym_RThinArrow", "Sym_ThickArrow",
       "Sym_LBrace", "Sym_RBrace", "Sym_LBracket", "Sym_RBracket",
       "Sym_LParen", "Sym_RParen",
       "Lit_Character", "Lit_Float", "Lit_Integer", "Lit_String",
       "Exp_Binary", "Exp_Literal", "Exp_Paren", "Exp_UnaryPrefix",
       "Exp_UnaryPostfix", "Exp_VariableRef",
       "Dec_GlobalBinding",
       "Comment", "DocComment", "Whitespace",
       "Identifier", "ReservedIdentifier", "Error", "Root" >>

SyntaxKinds == { SyntaxKind[n] : n \in 1..Len(SyntaxKind) }

\* #[derive(Ord, PartialOrd)]: a kind's place in the declaration
Ord(k) == CHOOSE n \in 1..Len(SyntaxKind) : SyntaxKind[n] = k

\* self >= lo && self <= hi
Between(k, lo, hi) == Ord(k) >= Ord(lo) /\ Ord(k) <= Ord(hi)

\* An is_trivia that knows the comments only.
SyntaxKind_is_trivia_comments(k) == k \in {"Comment", "DocComment"}

SyntaxKind_is_trivia(k) == k \in {"Comment", "DocComment", "Whitespace"}

SyntaxKind_is_keyword(k) == Between(k, "Kwd_Alias", "Kwd_With")

\* An is_symbol whose range stops one bracket pair early.
SyntaxKind_is_symbol_short(k) == Between(k, "Sym_Ampersand", "Sym_RBracket")

SyntaxKind_is_symbol(k) == Between(k, "Sym_Ampersand", "Sym_RParen")

SyntaxKind_is_literal(k) == Between(k, "Lit_Character", "Lit_String")

SyntaxKind_is_expression(k) == Between(k, "Exp_Binary", "Exp_VariableRef")

SyntaxKind_is_declaration(k) == k = "Dec_GlobalBinding"

SyntaxKind_is_comment(k) == k = "Comment" \/ k = "DocComment"

SyntaxKind_is_identifier(k) == k = "Identifier" \/ k = "ReservedIdentifier"

article(k) ==
    IF SyntaxKind_is_keyword(k) THEN "the"
    ELSE IF k \in {"Sym_Ampersand", "Sym_Asterisk", "Sym_At", "Sym_EmDash",
                   "Sym_EnDash", "Sym_Eq", "Sym_LBrace", "Sym_LBracket",
                   "Sym_LParen", "Lit_Integer", "Identifier", "Error"}
    THEN "an"
    ELSE "a"

\* Option<String>: "None" for None
qualifier(k) ==
    CASE k = "Sym_LBrace" -> "opening curly"
      [] k = "Sym_LBracket" -> "opening square"
      [] k = "Sym_LParen" -> "opening"
      [] k = "Sym_RBrace" -> "closing curly"
      [] k = "Sym_RBracket" -> "closing square"
      [] k = "Sym_RParen" -> "closing"
      [] OTHER -> "None"

\* The grave accent of the source's strings is written as an apostrophe.
description(k) ==
    CASE k = "Kwd_Alias" -> "'alias'"       [] k = "Kwd_And" -> "'and'"
      [] k = "Kwd_As" -> "'as'"             [] k = "Kwd_Begin" -> "'begin'"
      [] k = "Kwd_Else" -> "'else'"         [] k = "Kwd_End" -> "'end'"
      [] k = "Kwd_Export" -> "'export'"     [] k = "Kwd_External" -> "'external'"
      [] k = "Kwd_For" -> "'for'"           [] k = "Kwd_Forall" -> "'forall'"
      [] k = "Kwd_If" -> "'if'"             [] k = "Kwd_Import" -> "'import'"
      [] k = "Kwd_In" -> "'in'"             [] k = "Kwd_Let" -> "'let'"
      [] k = "Kwd_Loop" -> "l'oop'"         [] k = "Kwd_Match" -> "'match'"
      [] k = "Kwd_Module" -> "'module'"     [] k = "Kwd_Not" -> "'not'"
      [] k = "Kwd_Of" -> "'of'"             [] k = "Kwd_Or" -> "'or'"
      [] k = "Kwd_Rec" -> "'rec'"           [] k = "Kwd_Ref" -> "'ref'"
      [] k = "Kwd_Then" -> "'then'"         [] k = "Kwd_Type" -> "'type'"
      [] k = "Kwd_Unimplemented" -> "'???'" [] k = "Kwd_Val" -> "'val'"
      [] k = "Kwd_While" -> "'while'"       [] k = "Kwd_With" -> "'with'"
      [] k = "Sym_Ampersand" -> "ampersand" [] k = "Sym_Asterisk" -> "asterisk"
      [] k = "Sym_At" -> "at"               [] k = "Sym_BackSlash" -> "backslash"
      [] k = "Sym_Bang" -> "bang"           [] k = "Sym_BangEq" -> "bang equal"
      [] k = "Sym_Caret" -> "caret"         [] k = "Sym_Colon" -> "colon"
      [] k = "Sym_Comma" -> "comma"         [] k = "Sym_Dollar" -> "dollar"
      [] k = "Sym_Dot" -> "dot"             [] k = "Sym_EmDash" -> "em-dash"
      [] k = "Sym_EnDash" -> "en-dash"      [] k = "Sym_Eq" -> "equal"
      [] k = "Sym_ForwardSlash" -> "forward slash"
      [] k = "Sym_Minus" -> "minus"         [] k = "Sym_Percent" -> "percent"
      [] k = "Sym_Pipe" -> "pipe"           [] k = "Sym_Plus" -> "plus"
      [] k = "Sym_Pound" -> "pound"         [] k = "Sym_Question" -> "question mark"
      [] k = "Sym_Semicolon" -> "semicolon" [] k = "Sym_Sterling" -> "sterling"
      [] k = "Sym_Tilde" -> "tilde"         [] k = "Sym_Lt" -> "less than"
      [] k = "Sym_LtEq" -> "less than equal to"
      [] k = "Sym_Gt" -> "greater than"
      [] k = "Sym_GtEq" -> "greater than equal to"
      [] k = "Sym_LThinArrow" -> "leftwards thin arrow"
      [] k = "Sym_RThinArrow" -> "rightwards thin arrow"
      [] k = "Sym_ThickArrow" -> "thick arrow"
      [] k \in {"Sym_LBrace", "Sym_RBrace"} -> "brace"
      [] k \in {"Sym_LBracket", "Sym_RBracket"} -> "bracket"
      [] k \in {"Sym_LParen", "Sym_RParen"} -> "parenthesis"
      [] k = "Lit_Character" -> "character" [] k = "Lit_Float" -> "float"
      [] k = "Lit_Integer" -> "integer"     [] k = "Lit_String" -> "string"
      [] k = "Exp_Binary" -> "binary"       [] k = "Exp_Literal" -> "literal"
      [] k = "Exp_Paren" -> "parenthesized"
      [] k = "Exp_UnaryPrefix" -> "unary prefixed"
      [] k = "Exp_UnaryPostfix" -> "unary postfixed"
      [] k = "Exp_VariableRef" -> "variable reference"
      [] k = "Dec_GlobalBinding" -> "global binding"
      [] k = "DocComment" -> "documentation"
      [] k = "ReservedIdentifier" -> "reserved"
      [] OTHER -> "None"

\* SyntaxKind::kind; "unreachable" stands for the arm  _ => unreachable!(..)
SyntaxKind_kind(k) ==
    IF SyntaxKind_is_keyword(k) THEN "keyword"
    ELSE IF SyntaxKind_is_symbol(k) THEN "symbol"
    ELSE IF SyntaxKind_is_literal(k) THEN "literal"
    ELSE IF SyntaxKind_is_expression(k) THEN "expression"
    ELSE IF SyntaxKind_is_declaration(k) THEN "declaration"
    ELSE IF SyntaxKind_is_comment(k) THEN "comment"
    ELSE IF SyntaxKind_is_identifier(k) THEN "identifier"
    ELSE IF k = "Whitespace" THEN "whitespace"
    ELSE IF k = "Error" THEN "error"
    ELSE "unreachable"

\* SyntaxKind::code_repr: the spelling, <<>> for None
code_repr(k) ==
    CASE k = "Sym_Ampersand" -> <<"&">>   [] k = "Sym_Asterisk" -> <<"*">>
      [] k = "Sym_At" -> <<"@">>          [] k = "Sym_BackSlash" -> <<"\\">>
      [] k = "Sym_Bang" -> <<"!">>        [] k = "Sym_BangEq" -> <<"!", "=">>
      [] k = "Sym_Caret" -> <<"^">>       [] k = "Sym_Colon" -> <<":">>
      [] k = "Sym_Comma" -> <<",">>       [] k = "Sym_Dollar" -> <<"$">>
      [] k = "Sym_Dot" -> <<".">>         [] k = "Sym_EmDash" -> <<EmDash>>
      [] k = "Sym_EnDash" -> <<EnDash>>   [] k = "Sym_Eq" -> <<"=">>
      [] k = "Sym_ForwardSlash" -> <<"/">>
      [] k = "Sym_Minus" -> <<"-">>       [] k = "Sym_Percent" -> <<"%">>
      [] k = "Sym_Pipe" -> <<"|">>        [] k = "Sym_Plus" -> <<"+">>
      [] k = "Sym_Pound" -> <<"#">>       [] k = "Sym_Question" -> <<"?">>
      [] k = "Sym_Semicolon" -> <<";">>   [] k = "Sym_Sterling" -> <<Sterling>>
      [] k = "Sym_Tilde" -> <<"~">>       [] k = "Sym_Lt" -> <<"<">>
      [] k = "Sym_LtEq" -> <<"<", "=">>   [] k = "Sym_Gt" -> <<">">>
      [] k = "Sym_GtEq" -> <<">", "=">>
      [] k = "Sym_LThinArrow" -> <<"<", "-">>
      [] k = "Sym_RThinArrow" -> <<"-", ">">>
      [] k = "Sym_ThickArrow" -> <<"=", ">">>
      [] k = "Sym_LBrace" -> <<"{">>      [] k = "Sym_RBrace" -> <<"}">>
      [] k = "Sym_LBracket" -> <<"[">>    [] k = "Sym_RBracket" -> <<"]">>
      [] k = "Sym_LParen" -> <<"(">>      [] k = "Sym_RParen" -> <<")">>
      [] OTHER -> <<>>

example(k) ==
    CASE k = "Lit_Character" -> "'a'"
      [] k = "Lit_Float" -> "123.456"
      [] k = "Lit_Integer" -> "123"
      [] k = "Lit_String" -> "\"hello, world!\""
      [] k = "Identifier" -> "foo"
      [] OTHER -> "None"

\* The characters of a spelling, as one string.
RECURSIVE Join(_)
Join(chars) == IF chars = <<>> THEN "" ELSE chars[1] \o Join(Tail(chars))

\* Display for HumanReadableRepr: the article, then the qualifier and the
\* description if there are any, then the kind, separated by blanks; then
\* the code representation, quoted and in parentheses, and the example
\* after the word like, if there are any.
Display(repr) ==
    repr.article
    \o (IF repr.qualifier = "None" THEN "" ELSE " " \o repr.qualifier)
    \o (IF repr.description = "None" THEN "" ELSE " " \o repr.description)
    \o " " \o repr.kind
    \o (IF repr.code_repr = <<>> THEN ""
        ELSE " ('" \o Join(repr.code_repr) \o "')")
    \o (IF repr.example = "None" THEN ""
        ELSE " (like '" \o repr.example \o "')")

\* What a call returned, or that it panicked.
Returned(value) == [status |-> "ok", value |-> value]

Panicked == [status |-> "panic", value |-> "panic"]

\* SyntaxKind::human_readable_repr, and the text Display makes of it
human_readable_repr(k) ==
    IF SyntaxKind_kind(k) = "unreachable" THEN Panicked
    ELSE LET repr == [article |-> article(k), qualifier |-> qualifier(k),
                      description |-> description(k), kind |-> SyntaxKind_kind(k),
                      code_repr |-> code_repr(k), example |-> example(k)]
         IN Returned([repr |-> repr, text |-> Display(repr)])

\* macro_rules! Sym; "no rule" when the macro has no rule for the spelling
Sym(s) ==
    CASE s = <<"&">> -> "Sym_Ampersand"   [] s = <<"*">> -> "Sym_Asterisk"
      [] s = <<"@">> -> "Sym_At"          [] s = <<"!">> -> "Sym_Bang"
      [] s = <<"!", "=">> -> "Sym_BangEq" [] s = <<"^">> -> "Sym_Caret"
      [] s = <<",">> -> "Sym_Comma"       [] s = <<"$">> -> "Sym_Dollar"
      [] s = <<".">> -> "Sym_Dot"         [] s = <<EmDash>> -> "Sym_EmDash"
      [] s = <<EnDash>> -> "Sym_EnDash"   [] s = <<"=">> -> "Sym_Eq"
      [] s = <<"/">> -> "Sym_ForwardSlash"
      [] s = <<"-">> -> "Sym_Minus"       [] s = <<"%">> -> "Sym_Percent"
      [] s = <<"|">> -> "Sym_Pipe"        [] s = <<"+">> -> "Sym_Plus"
      [] s = <<"#">> -> "Sym_Pound"       [] s = <<"?">> -> "Sym_Question"
      [] s = <<";">> -> "Sym_Semicolon"   [] s = <<Sterling>> -> "Sym_Sterling"
      [] s = <<"~">> -> "Sym_Tilde"       [] s = <<"<">> -> "Sym_Lt"
      [] s = <<"<", "=">> -> "Sym_LtEq"   [] s = <<">">> -> "Sym_Gt"
      [] s = <<">", "=">> -> "Sym_GtEq"
      [] s = <<"<", "-">> -> "Sym_LThinArrow"
      [] s = <<"-", ">">> -> "Sym_RThinArrow"
      [] s = <<"=", ">">> -> "Sym_ThickArrow"
      [] s = <<"{">> -> "Sym_LParen"      [] s = <<"}">> -> "Sym_RParen"
      [] s = <<"[">> -> "Sym_LBracket"    [] s = <<"]">> -> "Sym_RBracket"
      [] s = <<"(">> -> "Sym_LParen"      [] s = <<")">> -> "Sym_RParen"
      [] OTHER -> "no rule"

\* symbol_from_chars(&[..]): the kind, or "None"
symbol_from_chars(chars) ==
    IF Len(chars) = 2 THEN symbol_from_two_chars(chars[1], chars[2]) ELSE "None"

\* The characters the catalog is asked about: those of is_symbol of the
\* lexer, and a letter and a digit.
CatalogChars ==
    {"&", "*", "@", "!", "^", ":", ",", "$", ".", EnDash, EmDash, "=", "-",
     "%", "+", "#", "?", ";", Sterling, "~", "|", "/", "\\", "<", ">", "{",
     "}", "[", "]", "(", ")", "a", "1"}

\* The spellings: every one and every two of these characters.
Spellings == { <<c>> : c \in CatalogChars } \cup (CatalogChars \X CatalogChars)

KindArg(k) == [type |-> "kind", kind |-> k, chars |-> <<>>]

SpellingArg(s) == [type |-> "spelling", kind |-> "none", chars |-> s]

NoCall == [status |-> "none", value |-> "none"]

CatalogFrame == UNCHANGED <<indentVars, lexerVars, parserVars>>

InitCatalog ==
    /\ IndentIdle
    /\ LexerIdle
    /\ ParserIdle
    /\ cat_arg \in { KindArg(k) : k \in SyntaxKinds }
                     \cup { SpellingArg(sp) : sp \in Spellings }
    /\ cat_op = "none"
    /\ cat_out = NoCall

\* kind.human_readable_repr(), formatted
HumanReadableRepr ==
    /\ CatalogFrame
    /\ cat_op = "none" /\ cat_arg.type = "kind"
    /\ cat_op' = "human_readable_repr"
    /\ cat_out' = human_readable_repr(cat_arg.kind)
    /\ UNCHANGED cat_arg

\* kind.is_trivia(), is_keyword(), ... is_identifier()
IsCategory ==
    /\ CatalogFrame
    /\ cat_op = "none" /\ cat_arg.type = "kind"
    /\ cat_op' = "is"
    /\ cat_out' = Returned([is_trivia |-> SyntaxKind_is_trivia(cat_arg.kind),
                            is_keyword |-> SyntaxKind_is_keyword(cat_arg.kind),
                            is_symbol |-> SyntaxKind_is_symbol(cat_arg.kind),
                            is_literal |-> SyntaxKind_is_literal(cat_arg.kind),
                            is_expression |-> SyntaxKind_is_expression(cat_arg.kind),
                            is_declaration |-> SyntaxKind_is_declaration(cat_arg.kind),
                            is_comment |-> SyntaxKind_is_comment(cat_arg.kind),
                            is_identifier |-> SyntaxKind_is_identifier(cat_arg.kind)])
    /\ UNCHANGED cat_arg

\* Sym![s], for the spellings the macro has a rule for
SymMacro ==
    /\ CatalogFrame
    /\ cat_op = "none" /\ cat_arg.type = "spelling"
    /\ Sym(cat_arg.chars) # "no rule"
    /\ cat_op' = "Sym"
    /\ cat_out' = Returned(Sym(cat_arg.chars))
    /\ UNCHANGED cat_arg

\* symbol_from_char(c), which panics on a character that is no symbol
SymbolFromChar ==
    /\ CatalogFrame
    /\ cat_op = "none" /\ cat_arg.type = "spelling" /\ Len(cat_arg.chars) = 1
    /\ cat_op' = "symbol_from_char"
    /\ cat_out' = IF symbol_from_char(cat_arg.chars[1]) = "panic" THEN Panicked
                  ELSE Returned(symbol_from_char(cat_arg.chars[1]))
    /\ UNCHANGED cat_arg

\* symbol_from_chars(&[a, b])
SymbolFromChars ==
    /\ CatalogFrame
    /\ cat_op = "none" /\ cat_arg.type = "spelling"
    /\ cat_op' = "symbol_from_chars"
    /\ cat_out' = Returned(symbol_from_chars(cat_arg.chars))
    /\ UNCHANGED cat_arg

NextCatalog ==
    \/ HumanReadableRepr
    \/ IsCategory
    \/ SymMacro
    \/ SymbolFromChar
    \/ SymbolFromChars

SpecCatalog == InitCatalog /\ [][NextCatalog]_vars

\* ---------------------------------------------------------------- Claims
Arg == cat_arg.kind

\* What symbol_from_char or symbol_from_chars makes of a spelling.
FromSpelling(s) ==
    IF Len(s) = 1 THEN symbol_from_char(s[1]) ELSE symbol_from_chars(s)

\* C21: for every spelling the Sym macro accepts, Sym gives the kind that
\* symbol_from_char (one character) or symbol_from_chars (two characters)
\* gives for that spelling.
C21_SymAgrees ==
    cat_op = "Sym" => cat_out.value = FromSpelling(cat_arg.chars)

\* How each keyword kind is spelled in source text.
KeywordSpelling(k) ==
    CASE k = "Kwd_Alias" -> <<"a","l","i","a","s">>
      [] k = "Kwd_And" -> <<"a","n","d">>
      [] k = "Kwd_As" -> <<"a","s">>
      [] k = "Kwd_Begin" -> <<"b","e","g","i","n">>
      [] k = "Kwd_Else" -> <<"e","l","s","e">>
      [] k = "Kwd_End" -> <<"e","n","d">>
      [] k = "Kwd_Export" -> <<"e","x","p","o","r","t">>
      [] k = "Kwd_External" -> <<"e","x","t","e","r","n","a","l">>
      [] k = "Kwd_For" -> <<"f","o","r">>
      [] k = "Kwd_Forall" -> <<"f","o","r","a","l","l">>
      [] k = "Kwd_If" -> <<"i","f">>
      [] k = "Kwd_Import" -> <<"i","m","p","o","r","t">>
      [] k = "Kwd_In" -> <<"i","n">>
      [] k = "Kwd_Let" -> <<"l","e","t">>
      [] k = "Kwd_Loop" -> <<"l","o","o","p">>
      [] k = "Kwd_Match" -> <<"m","a","t","c","h">>
      [] k = "Kwd_Module" -> <<"m","o","d","u","l","e">>
      [] k = "Kwd_Not" -> <<"n","o","t">>
      [] k = "Kwd_Of" -> <<"o","f">>
      [] k = "Kwd_Or" -> <<"o","r">>
      [] k = "Kwd_Rec" -> <<"r","e","c">>
      [] k = "Kwd_Ref" -> <<"r","e","f">>
      [] k = "Kwd_Then" -> <<"t","h","e","n">>
      [] k = "Kwd_Type" -> <<"t","y","p","e">>
      [] k = "Kwd_Unimplemented" -> <<"?","?","?">>
      [] k = "Kwd_Val" -> <<"v","a","l">>
      [] k = "Kwd_While" -> <<"w","h","i","l","e">>
      [] k = "Kwd_With" -> <<"w","i","t","h">>

\* C22: the human-readable representation of every keyword kind is the
\* text "the 'spelling' keyword", the spelling being the keyword's entry
\* of KEYWORDS (??? for Kwd_Unimplemented).
C22_KeywordText ==
    (cat_op = "human_readable_repr" /\ SyntaxKind_is_keyword(Arg)) =>
        /\ Arg # "Kwd_Unimplemented" => KeywordSpelling(Arg) \in KEYWORDS
        /\ cat_out.status = "ok"
        /\ cat_out.value.text = "the '" \o Join(KeywordSpelling(Arg)) \o "' keyword"

\* C23: is_trivia holds for exactly Comment, DocComment and Whitespace; it
\* is false for every keyword, symbol, literal, expression, declaration
\* and identifier kind, for Error and for Root.
C23_TriviaExact ==
    cat_op = "is" =>
        LET is == cat_out.value
        IN /\ is.is_trivia <=> Arg \in {"Comment", "DocComment", "Whitespace"}
           /\ (\/ is.is_keyword \/ is.is_symbol \/ is.is_literal
               \/ is.is_expression \/ is.is_declaration \/ is.is_identifier
               \/ Arg \in {"Error", "Root"}) => ~is.is_trivia

C23_Witness ==
    /\ cat_op = "is"
    /\ Arg = "Whitespace"
    /\ cat_out.value.is_trivia
    /\ ~cat_out.value.is_comment

\* The categories of SyntaxKind::kind a kind belongs to.
Categories(k) ==
    { c \in {"keyword", "symbol", "literal", "expression", "declaration",
             "comment", "identifier", "whitespace", "error"} :
        CASE c = "keyword" -> SyntaxKind_is_keyword(k)
          [] c = "symbol" -> SyntaxKind_is_symbol(k)
          [] c = "literal" -> SyntaxKind_is_literal(k)
          [] c = "expression" -> SyntaxKind_is_expression(k)
          [] c = "declaration" -> SyntaxKind_is_declaration(k)
          [] c = "comment" -> SyntaxKind_is_comment(k)
          [] c = "identifier" -> SyntaxKind_is_identifier(k)
          [] c = "whitespace" -> k = "Whitespace"
          [] c = "error" -> k = "Error" }

\* C25: every kind belongs to exactly one category, so that the
\* unreachable arm of SyntaxKind::kind is never taken and
\* human_readable_repr returns a value for every kind.
C25_EveryKindCategorised ==
    cat_op = "human_readable_repr" =>
        /\ Cardinality(Categories(Arg)) = 1
        /\ cat_out.status = "ok"

\* C30: symbol_from_char and symbol_from_chars are injective, their images
\* are disjoint and together are exactly the kinds of is_symbol, and
\* code_repr inverts them: the kind made of a spelling is a symbol kind
\* whose code_repr is that spelling and which the other function never
\* makes, and every symbol kind is made of its code_repr.
C30_SymbolBijection ==
    /\ (cat_op = "symbol_from_char" /\ cat_out.status = "ok") =>
           /\ SyntaxKind_is_symbol(cat_out.value)
           /\ code_repr(cat_out.value) = cat_arg.chars
           /\ \A sp \in Spellings : symbol_from_chars(sp) # cat_out.value
    /\ (cat_op = "symbol_from_chars" /\ cat_out.value # "None") =>
           /\ SyntaxKind_is_symbol(cat_out.value)
           /\ code_repr(cat_out.value) = cat_arg.chars
           /\ \A c \in CatalogChars : symbol_from_char(c) # cat_out.value
    /\ (cat_op = "is" /\ cat_out.value.is_symbol) =>
           /\ code_repr(Arg) \in Spellings
           /\ FromSpelling(code_repr(Arg)) = Arg

C30_Witness ==
    \/ cat_op = "symbol_from_chars" /\ cat_out.value = "Sym_LtEq"
    \/ cat_op = "symbol_from_char" /\ cat_out.value = "Sym_RParen"
    \/ cat_op = "is" /\ Arg = "Sym_RParen" /\ cat_out.value.is_symbol

====
